---------------------------- MODULE Spec2Model ----------------------------
(***************************************************************************)
(* A model of the DICOM parser (DicomParser) and writer (DicomWriter) of   *)
(* the repository, at the level of bytes.                                  *)
(*                                                                         *)
(* Conventions of the model                                                *)
(*  - a buffer is a sequence of bytes 0..255; the byte at JavaScript       *)
(*    offset o is buf[o + 1];                                              *)
(*  - a JavaScript string is the sequence of its char codes;               *)
(*  - the hexadecimal strings '0xGGGG' of a tag are the sequences of their *)
(*    four hexadecimal digits (0..15), the key 'xGGGGEEEE' is the sequence *)
(*    of its eight digits;                                                 *)
(*  - TLC's integers have 32 bits: an unsigned 32-bit word of 2^31 or more *)
(*    is held in two's complement (0xffffffff is -1);                      *)
(*  - a JavaScript value of an element is a typed array                    *)
(*    [t |-> "Uint16Array", data |-> <<...>>, cells |-> <<>>], a plain     *)
(*    Array [t |-> "Array", data |-> <<>>, cells |-> <<cell, ...>>] whose  *)
(*    cells are strings, numbers, item maps or typed arrays, or null.      *)
(***************************************************************************)
EXTENDS Integers, Sequences, FiniteSets, TLC

\* 0xffffffff in the 32-bit two's complement the model holds words in.
xFFFFFFFF == -1

\* The string 'u/l' that the parser stores as the vl of an undefined length.
UL == -2

Last(s) == s[Len(s)]
Front(s) == SubSeq(s, 1, Len(s) - 1)

RECURSIVE SumSeq(_)
SumSeq(s) == IF s = <<>> THEN 0 ELSE s[1] + SumSeq(Tail(s))

RECURSIVE Flatten(_)
Flatten(ss) == IF ss = <<>> THEN <<>> ELSE ss[1] \o Flatten(Tail(ss))

(***************************************************************************)
(* Strings.                                                                *)
(***************************************************************************)
\* Uppercase hexadecimal digit <-> char code ('0' = 48, 'A' = 65).
HexChar(d) == IF d < 10 THEN 48 + d ELSE 55 + d
\* Number.toString(16) padded to four digits: the digits of a 16-bit word.
Hex4(n) == <<n \div 4096, (n \div 256) % 16, (n \div 16) % 16, n % 16>>
\* parseInt(digits, 16) of four hexadecimal digits.
ParseHex4(h) == ((h[1] * 16 + h[2]) * 16 + h[3]) * 16 + h[4]

\* The hexadecimal value of a char code, -1 when it is no hexadecimal digit.
HexVal(c) ==
  IF c >= 48 /\ c <= 57 THEN c - 48
  ELSE IF c >= 65 /\ c <= 70 THEN c - 55
  ELSE IF c >= 97 /\ c <= 102 THEN c - 87
  ELSE -1

\* parseInt(str, 16): the longest prefix of hexadecimal digits; NaN is -1.
RECURSIVE ParseIntHexFrom(_, _, _)
ParseIntHexFrom(s, i, acc) ==
  IF i > Len(s) \/ HexVal(s[i]) < 0 THEN acc
  ELSE ParseIntHexFrom(s, i + 1, (IF acc < 0 THEN 0 ELSE acc) * 16 + HexVal(s[i]))
ParseIntHex(s) == ParseIntHexFrom(s, 1, -1)

\* String.prototype.split on one separator char.
RECURSIVE SplitFrom(_, _, _, _)
SplitFrom(s, sep, i, cur) ==
  IF i > Len(s) THEN <<cur>>
  ELSE IF s[i] = sep THEN <<cur>> \o SplitFrom(s, sep, i + 1, <<>>)
  ELSE SplitFrom(s, sep, i + 1, Append(cur, s[i]))
Split(s, sep) == SplitFrom(s, sep, 1, <<>>)

\* Array.prototype.join with one separator char (the inverse used on write).
RECURSIVE Join(_, _)
Join(ss, sep) ==
  IF ss = <<>> THEN <<>>
  ELSE IF Len(ss) = 1 THEN ss[1]
  ELSE ss[1] \o <<sep>> \o Join(Tail(ss), sep)

\* The white space String.prototype.trim removes (among the 8-bit chars).
IsWhiteSpace(c) == c \in {9, 10, 11, 12, 13, 32, 160}
RECURSIVE TrimLeft(_)
TrimLeft(s) == IF s # <<>> /\ IsWhiteSpace(s[1]) THEN TrimLeft(Tail(s)) ELSE s
RECURSIVE TrimRight(_)
TrimRight(s) == IF s # <<>> /\ IsWhiteSpace(Last(s)) THEN TrimRight(Front(s)) ELSE s
Trim(s) == TrimRight(TrimLeft(s))

\* cleanString: trim, then drop one ending String.fromCharCode('u200B'),
\* which is String.fromCharCode(NaN), the NUL char.
cleanString(inputStr) ==
  IF inputStr = <<>> THEN inputStr
  ELSE LET res == Trim(inputStr)
       IN IF res # <<>> /\ Last(res) = 0 THEN Front(res) ELSE res

\* Number(str) of a decimal string with white space around it; NaN is -1.
RECURSIVE DigitsValue(_, _)
DigitsValue(s, acc) ==
  IF s = <<>> THEN acc
  ELSE IF s[1] < 48 \/ s[1] > 57 THEN -1
  ELSE DigitsValue(Tail(s), acc * 10 + (s[1] - 48))
ToNumber(s) == LET t == Trim(s) IN IF t = <<>> THEN 0 ELSE DigitsValue(t, 0)

(***************************************************************************)
(* JavaScript values of an element.                                        *)
(***************************************************************************)
NoArr == [t |-> "none", data |-> <<>>]
StrCell(s) == [k |-> "string", s |-> s, n |-> 0, m |-> <<>>, a |-> NoArr]
NumCell(n) == [k |-> "number", s |-> <<>>, n |-> n, m |-> <<>>, a |-> NoArr]
MapCell(m) == [k |-> "object", s |-> <<>>, n |-> 0, m |-> m, a |-> NoArr]
ArrCell(t, data) == [k |-> "typed", s |-> <<>>, n |-> 0, m |-> <<>>, a |-> [t |-> t, data |-> data]]

TypedArray(t, data) == [t |-> t, data |-> data, cells |-> <<>>]
Array(cells) == [t |-> "Array", data |-> <<>>, cells |-> cells]
Null == [t |-> "null", data |-> <<>>, cells |-> <<>>]

IsTypedArray(v) == v.t \notin {"Array", "null"}
\* value.length
ValueLength(v) == IF v.t = "Array" THEN Len(v.cells) ELSE Len(v.data)

\* BYTES_PER_ELEMENT of a typed array type.
BytesPerElement(t) ==
  CASE t \in {"Uint8Array", "Int8Array"} -> 1
    [] t \in {"Uint16Array", "Int16Array"} -> 2
    [] t \in {"Uint32Array", "Int32Array", "Float32Array"} -> 4
    [] t = "Float64Array" -> 8

\* The value a typed array of type t holds for the w-bit word x read from
\* the buffer (floats are held as their bit patterns).
ToElement(t, x) ==
  CASE t = "Int8Array" -> IF x >= 128 THEN x - 256 ELSE x
    [] t = "Int16Array" -> IF x >= 32768 THEN x - 65536 ELSE x
    [] OTHER -> x

(***************************************************************************)
(* DataReader: a buffer, the endianness of the data, the endianness of the *)
(* platform, and the label of the TextDecoder of 'special' strings.        *)
(***************************************************************************)
DataReader(buffer, isLittleEndian, native) ==
  [buf |-> buffer, le |-> isLittleEndian, native |-> native, label |-> "iso-8859-1"]

\* new DataReader flag needFlip.
needFlip(rd) == rd.le # rd.native

\* A DataView access or a typed array view outside the buffer throws RangeError.
InRange(buf, off, n) == off >= 0 /\ n >= 0 /\ off + n <= Len(buf)

\* DataView.getUint8 / getUint16 / getUint32 (the range was checked).
getUint8(buf, off) == buf[off + 1]
getUint16(buf, off, le) ==
  IF le THEN buf[off + 1] + 256 * buf[off + 2]
  ELSE buf[off + 2] + 256 * buf[off + 1]
getUint32(buf, off, le) ==
  LET b0 == IF le THEN buf[off + 1] ELSE buf[off + 4]
      b1 == IF le THEN buf[off + 2] ELSE buf[off + 3]
      b2 == IF le THEN buf[off + 3] ELSE buf[off + 2]
      b3 == IF le THEN buf[off + 4] ELSE buf[off + 1]
      lo == b0 + 256 * b1 + 65536 * b2
  IN IF b3 >= 128 THEN (b3 - 256) * 16777216 + lo ELSE b3 * 16777216 + lo
\* The w-byte word at off (w is 1, 2 or 4).
getWord(buf, off, w, le) ==
  CASE w = 1 -> getUint8(buf, off)
    [] w = 2 -> getUint16(buf, off, le)
    [] w = 4 -> getUint32(buf, off, le)

\* DataReader.flipArrayEndianness on the bytes off .. off + blen of the buffer.
flipArrayEndianness(buf, off, blen, bpel) ==
  [i \in 1..Len(buf) |->
     IF i - 1 >= off /\ i - 1 < off + blen
     THEN LET k == i - 1 - off
          IN buf[off + (k \div bpel) * bpel + (bpel - 1 - (k % bpel)) + 1]
     ELSE buf[i]]

ReadError(kind, buf) == [err |-> kind, data |-> <<>>, buf |-> buf]

\* DataReader.read<T>Array(byteOffset, size) for the 1, 2 and 4 byte types:
\* a view of the buffer flipped in place when the offset is aligned, a copy
\* read through the DataView otherwise.  The elements read are the same.
readArray(rd, byteOffset, size, t) ==
  LET bpel == BytesPerElement(t)
      arraySize == size \div bpel
      data == [i \in 1..arraySize |->
                 ToElement(t, getWord(rd.buf, byteOffset + bpel * (i - 1), bpel, rd.le))]
  IN IF ~InRange(rd.buf, byteOffset, arraySize * bpel)
     THEN ReadError("RangeError", rd.buf)
     ELSE IF bpel > 1 /\ (byteOffset % bpel) = 0 /\ needFlip(rd)
     THEN [err |-> "", data |-> data,
           buf |-> flipArrayEndianness(rd.buf, byteOffset, arraySize * bpel, bpel)]
     ELSE [err |-> "", data |-> data, buf |-> rd.buf]

\* DataReader.readHex: '0x' and the four uppercase digits of the 16-bit word.
readHex(rd, byteOffset) == Hex4(getUint16(rd.buf, byteOffset, rd.le))

\* DataReader.readString: one char per byte.
readString(rd, byteOffset, nChars) == SubSeq(rd.buf, byteOffset + 1, byteOffset + nChars)

\* TextDecoder('utf-8').decode for one and two byte sequences; a byte that
\* starts or continues no such sequence decodes to U+FFFD (65533).
RECURSIVE Utf8Decode(_)
Utf8Decode(b) ==
  IF b = <<>> THEN <<>>
  ELSE IF b[1] < 128 THEN <<b[1]>> \o Utf8Decode(Tail(b))
  ELSE IF b[1] >= 194 /\ b[1] <= 223 /\ Len(b) >= 2 /\ b[2] >= 128 /\ b[2] <= 191
  THEN <<(b[1] - 192) * 64 + (b[2] - 128)>> \o Utf8Decode(SubSeq(b, 3, Len(b)))
  ELSE <<65533>> \o Utf8Decode(Tail(b))

\* textDecoder.decode: the single byte decoders are the identity on ASCII,
\* which is all the bounded inputs give them.
Decode(label, bytes) == IF label = "utf-8" THEN Utf8Decode(bytes) ELSE bytes

\* DataReader.readSpecialString.
readSpecialString(rd, byteOffset, nChars) ==
  Decode(rd.label, SubSeq(rd.buf, byteOffset + 1, byteOffset + nChars))

\* getUtfLabel: the labels of the character set terms the bounded inputs use,
\* every other term falls to the default.
getUtfLabel(charSetTerm) ==
  IF charSetTerm = <<73, 83, 79, 95, 73, 82, 32, 49, 48, 48>> THEN "iso-8859-1"
  ELSE "utf-8"

(***************************************************************************)
(* Value representations, tags and the dictionary.                         *)
(***************************************************************************)
VR_OB == <<79, 66>>
VR_OW == <<79, 87>>
VR_OF == <<79, 70>>
VR_OD == <<79, 68>>
VR_ox == <<111, 120>>
VR_UT == <<85, 84>>
VR_SQ == <<83, 81>>
VR_UN == <<85, 78>>
VR_US == <<85, 83>>
VR_UL == <<85, 76>>
VR_SS == <<83, 83>>
VR_SL == <<83, 76>>
VR_FL == <<70, 76>>
VR_FD == <<70, 68>>
VR_AT == <<65, 84>>
VR_SH == <<83, 72>>
VR_LO == <<76, 79>>
VR_ST == <<83, 84>>
VR_PN == <<80, 78>>
VR_LT == <<76, 84>>
VR_UI == <<85, 73>>
VR_CS == <<67, 83>>
VR_IS == <<73, 83>>
VR_NONE == <<78, 79, 78, 69>>

\* getGroupElementKey: 'x' and the digits of the group and of the element.
getGroupElementKey(group, element) == group \o element

\* A tag object {group, element, name} of the 16-bit words g and e.
Tag(g, e) == [group |-> Hex4(g), element |-> Hex4(e),
              name |-> getGroupElementKey(Hex4(g), Hex4(e))]

x00020000 == Tag(2, 0).name
x00020001 == Tag(2, 1).name
x00020002 == Tag(2, 2).name
x00020010 == Tag(2, 16).name
x00020012 == Tag(2, 18).name
x00020013 == Tag(2, 19).name
x00080005 == Tag(8, 5).name
x00081140 == Tag(8, 4416).name
x00081150 == Tag(8, 4432).name
x00100010 == Tag(16, 16).name
x00200013 == Tag(32, 19).name
x00280002 == Tag(40, 2).name
x00280008 == Tag(40, 8).name
x00280009 == Tag(40, 9).name
x00280010 == Tag(40, 16).name
x00280011 == Tag(40, 17).name
x00280100 == Tag(40, 256).name
x00280103 == Tag(40, 259).name
x7FE00009 == Tag(32736, 9).name
x7FE00010 == Tag(32736, 16).name
xFFFEE000 == Tag(65534, 57344).name
xFFFEE00D == Tag(65534, 57357).name
xFFFEE0DD == Tag(65534, 57565).name

\* The entries of the DICOM dictionary that the bounded inputs use:
\* key -> <<VR, keyword>>.
DictionaryKeys ==
  {x00020000, x00020001, x00020002, x00020010, x00020012, x00020013,
   x00080005, x00081140, x00081150, x00100010, x00200013,
   x00280002, x00280008, x00280009, x00280010, x00280011, x00280100, x00280103,
   x7FE00009, x7FE00010}
dictionary ==
  [k \in DictionaryKeys |->
     CASE k = x00020000 -> <<VR_UL, "FileMetaInformationGroupLength">>
       [] k = x00020001 -> <<VR_OB, "FileMetaInformationVersion">>
       [] k = x00020002 -> <<VR_UI, "MediaStorageSOPClassUID">>
       [] k = x00020010 -> <<VR_UI, "TransferSyntaxUID">>
       [] k = x00020012 -> <<VR_UI, "ImplementationClassUID">>
       [] k = x00020013 -> <<VR_SH, "ImplementationVersionName">>
       [] k = x00080005 -> <<VR_CS, "SpecificCharacterSet">>
       [] k = x00081140 -> <<VR_SQ, "ReferencedImageSequence">>
       [] k = x00081150 -> <<VR_UI, "ReferencedSOPClassUID">>
       [] k = x00100010 -> <<VR_PN, "PatientName">>
       [] k = x00200013 -> <<VR_IS, "InstanceNumber">>
       [] k = x00280002 -> <<VR_US, "SamplesPerPixel">>
       [] k = x00280008 -> <<VR_IS, "NumberOfFrames">>
       [] k = x00280009 -> <<VR_AT, "FrameIncrementPointer">>
       [] k = x00280010 -> <<VR_US, "Rows">>
       [] k = x00280011 -> <<VR_US, "Columns">>
       [] k = x00280100 -> <<VR_US, "BitsAllocated">>
       [] k = x00280103 -> <<VR_US, "PixelRepresentation">>
       [] k = x7FE00009 -> <<VR_OD, "DoubleFloatPixelData">>
       [] k = x7FE00010 -> <<VR_ox, "PixelData">>]

\* TagGroups[group.substr(1)]: the name of a tag group, "" when it has none.
TagGroups(group) ==
  CASE group = Hex4(2) -> "Meta Element"
    [] group = Hex4(8) -> "Identifying"
    [] group = Hex4(16) -> "Patient"
    [] group = Hex4(32) -> "Relationship"
    [] group = Hex4(40) -> "Image Presentation"
    [] group = Hex4(32736) -> "Pixel Data"
    [] OTHER -> ""

(***************************************************************************)
(* Transfer syntaxes.                                                      *)
(***************************************************************************)
\* '1.2.840.10008.1.2'
UidImplicitLE == <<49, 46, 50, 46, 56, 52, 48, 46, 49, 48, 48, 48, 56, 46, 49, 46, 50>>
Uid(suffix) == UidImplicitLE \o suffix
UidExplicitLE == Uid(<<46, 49>>)
UidExplicitBE == Uid(<<46, 50>>)
\* '1.2.840.10008.1.2.4.' and two digits
UidJpeg(d1, d2) == Uid(<<46, 52, 46, 48 + d1, 48 + d2>>)

\* str.match(regexp) !== null for a regular expression made of literal chars
\* and of '.', which matches any char but a line terminator: some substring
\* of str matches.
RegexMatches(pattern, str) ==
  \E i \in 1..(Len(str) - Len(pattern) + 1) :
    \A j \in 1..Len(pattern) :
      IF pattern[j] = 46 THEN str[i + j - 1] \notin {10, 13}
      ELSE str[i + j - 1] = pattern[j]

isImplicitTransferSyntax(syntax) == syntax = UidImplicitLE
isBigEndianTransferSyntax(syntax) == syntax = UidExplicitBE
isJpegBaselineTransferSyntax(syntax) == syntax = UidJpeg(5, 0) \/ syntax = UidJpeg(5, 1)
isJpegLosslessTransferSyntax(syntax) == syntax = UidJpeg(5, 7) \/ syntax = UidJpeg(7, 0)
\* syntax.match(/1.2.840.10008.1.2.4.9/) !== null
isJpeg2000TransferSyntax(syntax) == RegexMatches(Uid(<<46, 52, 46, 57>>), syntax)

isReadSupportedTransferSyntax(syntax) ==
  \/ syntax = UidImplicitLE
  \/ syntax = UidExplicitLE
  \/ syntax = UidExplicitBE
  \/ isJpegBaselineTransferSyntax(syntax)
  \/ isJpegLosslessTransferSyntax(syntax)
  \/ isJpeg2000TransferSyntax(syntax)

\* is32bitVLVRFunc
is32bitVLVRFunc(vr) == vr \in {VR_OB, VR_OW, VR_OF, VR_ox, VR_UT, VR_SQ, VR_UN}

\* isTagWithVR: every tag but Item, ItemDelimitationItem and
\* SequenceDelimitationItem.
isTagWithVR(group, element) ==
  ~(group = Hex4(65534) /\ element \in {Hex4(57344), Hex4(57357), Hex4(57565)})

\* getDataElementPrefixByteSize
getDataElementPrefixByteSize(vr, isImplicit) ==
  IF isImplicit \/ ~is32bitVLVRFunc(vr) THEN 8 ELSE 12

(***************************************************************************)
(* Element maps: JavaScript objects keyed by tag name, in insertion order. *)
(***************************************************************************)
Has(map, name) == \E i \in 1..Len(map) : map[i].tag.name = name
Get(map, name) == map[CHOOSE i \in 1..Len(map) : map[i].tag.name = name]
\* map[element.tag.name] = element: a key that exists keeps its place.
Put(map, element) ==
  IF Has(map, element.tag.name)
  THEN [i \in 1..Len(map) |->
          IF map[i].tag.name = element.tag.name THEN element ELSE map[i]]
  ELSE Append(map, element)

\* value[0] of an element's value is a number (of a typed array).
HasNumber0(v) == IsTypedArray(v) /\ Len(v.data) >= 1

(***************************************************************************)
(* DicomParser: readTag, readDataElement, readItemDataElement,             *)
(* readPixelItemDataElement.  A read gives [err, el, buf, aux]: the error  *)
(* thrown ("" for none), the element, the buffer after the read (a typed   *)
(* array read may flip it in place) and, in aux, the header that was read. *)
(***************************************************************************)
NoTag == [group |-> <<>>, element |-> <<>>, name |-> <<>>]
NoElement ==
  [tag |-> NoTag, vr |-> <<>>, vl |-> 0, value |-> Null,
   startOffset |-> 0, endOffset |-> 0]
\* What a read saw of the element's header: the offset it started at, the
\* VR, the locals implicit and is32bitVLVR, and the offset of the value.
Aux(offset, tag, vr, implicit, is32bitVLVR, startOffset) ==
  [offset |-> offset, tag |-> tag, vr |-> vr, implicit |-> implicit,
   is32bitVLVR |-> is32bitVLVR, startOffset |-> startOffset]
NoAux == Aux(0, NoTag, <<>>, FALSE, FALSE, 0)

Thrown(kind, buf, aux) == [err |-> kind, el |-> NoElement, buf |-> buf, aux |-> aux]
Returned(el, buf, aux) == [err |-> "", el |-> el, buf |-> buf, aux |-> aux]

\* DicomParser.readTag (the four bytes are in range).
readTag(rd, offset) ==
  LET group == readHex(rd, offset)
      element == readHex(rd, offset + 2)
  IN [group |-> group, element |-> element,
      name |-> getGroupElementKey(group, element), endOffset |-> offset + 4]

\* The VR the dictionary gives a tag under implicit VR, 'UN' without entry.
DictionaryVR(name) == IF name \in DictionaryKeys THEN dictionary[name][1] ELSE VR_UN

\* The pixel data branch of readDataElement chooses the typed array from
\* BitsAllocated and PixelRepresentation of the elements parsed so far:
\* "" is no array (data stays null), "none" a reader method that does not exist.
PixelArrayType(des) ==
  LET bitsAllocated ==
        IF Has(des, x00280100)
        THEN (IF HasNumber0(Get(des, x00280100).value)
              THEN Get(des, x00280100).value.data[1] ELSE -1)
        ELSE 16
      pixelRepresentation ==
        IF Has(des, x00280103)
        THEN (IF HasNumber0(Get(des, x00280103).value)
              THEN Get(des, x00280103).value.data[1] ELSE -1)
        ELSE 0
  IN CASE bitsAllocated = 8 -> IF pixelRepresentation = 0 THEN "Uint8Array" ELSE "Int8Array"
       [] bitsAllocated = 16 -> IF pixelRepresentation = 0 THEN "Uint16Array" ELSE "Int16Array"
       [] bitsAllocated = 32 -> IF pixelRepresentation = 0 THEN "Uint32Array" ELSE "Int32Array"
       [] bitsAllocated = 64 -> "none"
       [] OTHER -> ""
PixelArrayTypeOrNull(t) == IF t = "" THEN "null" ELSE t

\* The 'AT' conversion of readDataElement: '(GGGG,EEEE)' of each pair.
RECURSIVE AttributeStrings(_)
AttributeStrings(raw) ==
  IF Len(raw) < 2 THEN <<>>
  ELSE LET g == Hex4(raw[1])
           e == Hex4(raw[2])
           str == <<40, HexChar(g[1]), HexChar(g[2]), HexChar(g[3]), HexChar(g[4]), 44,
                    HexChar(e[1]), HexChar(e[2]), HexChar(e[3]), HexChar(e[4]), 41>>
       IN <<StrCell(str)>> \o AttributeStrings(SubSeq(raw, 3, Len(raw)))

\* What readItemDataElement and the loops over items return.
ItemData(err, data, endOffset, isSeqDelim, buf) ==
  [err |-> err, data |-> data, endOffset |-> endOffset, isSeqDelim |-> isSeqDelim, buf |-> buf]
PixelItemData(err, data, endOffset, offsetTableVl, buf) ==
  [err |-> err, data |-> data, endOffset |-> endOffset, offsetTableVl |-> offsetTableVl,
   buf |-> buf]
\* The reader after a read: the same reader on the buffer the read left.
ReaderOn(rd, buf) == [rd EXCEPT !.buf = buf]

RECURSIVE readDataElement(_, _, _, _)
RECURSIVE readItemElements(_, _, _, _, _, _)
RECURSIVE readItemUntilDelim(_, _, _, _, _)
RECURSIVE readPixelItems(_, _, _, _, _)
RECURSIVE readSequenceItems(_, _, _, _, _, _)
RECURSIVE readSequenceUntilDelim(_, _, _, _, _)

\* readItemDataElement, explicit length: while (offset < endOffset), the
\* turn that read item.
readItemElementsStep(rd, offset, endOffset, implicit, des, itemData, item) ==
  IF item.err # ""
  THEN ItemData(item.err, itemData, offset, FALSE, item.buf)
  ELSE readItemElements(ReaderOn(rd, item.buf), item.el.endOffset, endOffset, implicit, des,
                        Put(itemData, item.el))
readItemElements(rd, offset, endOffset, implicit, des, itemData) ==
  IF ~(offset < endOffset)
  THEN ItemData("", itemData, offset, FALSE, rd.buf)
  ELSE readItemElementsStep(rd, offset, endOffset, implicit, des, itemData,
                            readDataElement(rd, offset, implicit, des))

\* readItemDataElement, undefined length: until the item delimitation item.
readItemUntilDelimStep(rd, offset, implicit, des, itemData, item) ==
  IF item.err # ""
  THEN ItemData(item.err, itemData, offset, FALSE, item.buf)
  ELSE IF item.el.tag.name = xFFFEE00D
  THEN ItemData("", itemData, item.el.endOffset, FALSE, item.buf)
  ELSE readItemUntilDelim(ReaderOn(rd, item.buf), item.el.endOffset, implicit, des,
                          Put(itemData, item.el))
readItemUntilDelim(rd, offset, implicit, des, itemData) ==
  readItemUntilDelimStep(rd, offset, implicit, des, itemData,
                         readDataElement(rd, offset, implicit, des))

\* DicomParser.readItemDataElement: item is the element read first.
readItemDataElementOf(rd, offset, implicit, des, item) ==
  IF item.err # ""
  THEN ItemData(item.err, <<>>, offset, FALSE, item.buf)
  ELSE IF item.el.tag.name = xFFFEE0DD
  THEN ItemData("", <<>>, item.el.endOffset, TRUE, item.buf)
  ELSE IF item.el.vl = UL
  THEN readItemUntilDelim(ReaderOn(rd, item.buf), item.el.endOffset, implicit, des,
                          <<item.el>>)
  ELSE IF item.el.vl # 0
  THEN readItemElements(ReaderOn(rd, item.buf), item.el.endOffset - item.el.vl,
                        item.el.endOffset, implicit, des, <<item.el>>)
  ELSE ItemData("", <<item.el>>, item.el.endOffset, FALSE, item.buf)
readItemDataElement(rd, offset, implicit, des) ==
  readItemDataElementOf(rd, offset, implicit, des, readDataElement(rd, offset, implicit, des))

\* readPixelItemDataElement: until the sequence delimitation item, the value
\* of every item read is pushed.
readPixelItemsStep(rd, offset, implicit, des, itemData, item) ==
  IF item.err # ""
  THEN PixelItemData(item.err, itemData, offset, 0, item.buf)
  ELSE IF item.el.tag.name = xFFFEE0DD
  THEN PixelItemData("", itemData, item.el.endOffset, 0, item.buf)
  ELSE IF ~IsTypedArray(item.el.value)
  THEN PixelItemData("Unmodelled", itemData, offset, 0, item.buf)
  ELSE readPixelItems(ReaderOn(rd, item.buf), item.el.endOffset, implicit, des,
                      Append(itemData, ArrCell(item.el.value.t, item.el.value.data)))
readPixelItems(rd, offset, implicit, des, itemData) ==
  readPixelItemsStep(rd, offset, implicit, des, itemData,
                     readDataElement(rd, offset, implicit, des))

\* DicomParser.readPixelItemDataElement: the first item is the basic offset
\* table, of which only the vl is kept.
readPixelItemDataElementOf(rd, offset, implicit, des, item) ==
  IF item.err # ""
  THEN PixelItemData(item.err, <<>>, offset, 0, item.buf)
  ELSE [readPixelItems(ReaderOn(rd, item.buf), item.el.endOffset, implicit, des, <<>>)
          EXCEPT !.offsetTableVl = item.el.vl]
readPixelItemDataElement(rd, offset, implicit, des) ==
  readPixelItemDataElementOf(rd, offset, implicit, des,
                             readDataElement(rd, offset, implicit, des))

\* readDataElement, sequence of explicit length: while (offset < sqEndOffset).
readSequenceItemsStep(rd, offset, sqEndOffset, implicit, des, data, itemData) ==
  IF itemData.err # ""
  THEN ItemData(itemData.err, data, offset, FALSE, itemData.buf)
  ELSE readSequenceItems(ReaderOn(rd, itemData.buf), itemData.endOffset, sqEndOffset,
                         implicit, des, Append(data, MapCell(itemData.data)))
readSequenceItems(rd, offset, sqEndOffset, implicit, des, data) ==
  IF ~(offset < sqEndOffset)
  THEN ItemData("", data, offset, FALSE, rd.buf)
  ELSE readSequenceItemsStep(rd, offset, sqEndOffset, implicit, des, data,
                             readItemDataElement(rd, offset, implicit, des))

\* readDataElement, sequence of undefined length: until the sequence
\* delimitation item, which is not stored.
readSequenceUntilDelimStep(rd, offset, implicit, des, data, itemData) ==
  IF itemData.err # ""
  THEN ItemData(itemData.err, data, offset, FALSE, itemData.buf)
  ELSE IF itemData.isSeqDelim
  THEN ItemData("", data, itemData.endOffset, FALSE, itemData.buf)
  ELSE readSequenceUntilDelim(ReaderOn(rd, itemData.buf), itemData.endOffset, implicit, des,
                              Append(data, MapCell(itemData.data)))
readSequenceUntilDelim(rd, offset, implicit, des, data) ==
  readSequenceUntilDelimStep(rd, offset, implicit, des, data,
                             readItemDataElement(rd, offset, implicit, des))

\* The element readDataElement returns.
Element(tag, vr, vl, value, startOffset, endOffset) ==
  [tag |-> tag, vr |-> vr, vl |-> vl, value |-> value,
   startOffset |-> startOffset, endOffset |-> endOffset]

\* The element of a read r that gave the value, or what the read threw.
ReadElement(r, tag, vr, vlString, value, startOffset, endOffset, aux) ==
  IF r.err # "" THEN Thrown(r.err, r.buf, aux)
  ELSE Returned(Element(tag, vr, vlString, value, startOffset, endOffset), r.buf, aux)
\* 'data = reader.read<T>Array(offset, vl); offset += vl'.
ArrayElement(r, tag, vr, vlString, vl, offset, t, aux) ==
  ReadElement(r, tag, vr, vlString, TypedArray(t, r.data), offset, offset + vl, aux)
\* The 'AT' branch.
AttributeElement(r, tag, vr, vlString, vl, offset, aux) ==
  ReadElement(r, tag, vr, vlString, Array(AttributeStrings(r.data)), offset, offset + vl, aux)
\* The pixel data sequence branch: startOffset += pixItemData.offsetTableVl.
PixelSequenceElement(pixItemData, tag, vr, vlString, offset, aux) ==
  ReadElement(pixItemData, tag, vr, vlString, Array(pixItemData.data),
              offset + pixItemData.offsetTableVl, pixItemData.endOffset, aux)
\* The 'SQ' branch.
SequenceElement(r, tag, vr, vlString, offset, aux) ==
  ReadElement(r, tag, vr, vlString, Array(r.data), offset, r.endOffset, aux)
\* The string branch: 'data = data.split('\\')'.
StringElement(parts, rd, tag, vr, vlString, vl, offset, aux) ==
  Returned(Element(tag, vr, vlString, Array([i \in 1..Len(parts) |-> StrCell(parts[i])]),
                   offset, offset + vl), rd.buf, aux)

\* The typed array readDataElement reads for the binary VRs: "none" is a
\* reader method that does not exist (readInt64Array), "" no typed array.
BinaryArrayType(vr) ==
  CASE vr = VR_OB -> "Int8Array"
    [] vr = VR_OW -> "Int16Array"
    [] vr = VR_OF -> "Int32Array"
    [] vr = VR_OD -> "none"
    [] vr = VR_US -> "Uint16Array"
    [] vr = VR_UL -> "Uint32Array"
    [] vr = VR_SS -> "Int16Array"
    [] vr = VR_SL -> "Int32Array"
    [] vr = VR_FL -> "Float32Array"
    [] vr = VR_UN -> "Uint8Array"
    [] OTHER -> ""
\* The typed array of the value: the pixel data branch asks BitsAllocated
\* and PixelRepresentation, and "null" is the data it leaves null.
ValueArrayType(des, tag, vr, vlString) ==
  IF tag.name = x7FE00010 /\ vlString # UL /\ vr \in {VR_OB, VR_OW, VR_OF, VR_ox}
  THEN PixelArrayTypeOrNull(PixelArrayType(des))
  ELSE BinaryArrayType(vr)

\* readDataElement from 'let startOffset = offset' on: the value, vl being
\* the number read and t the typed array of the branch taken.
readDataElementValueOf(rd, implicit, des, tag, vr, vlString, vl, t, offset, aux) ==
  IF tag.name = x7FE00010 /\ vlString = UL
  THEN PixelSequenceElement(readPixelItemDataElement(rd, offset, implicit, des),
                            tag, vr, vlString, offset, aux)
  ELSE IF t = "none" THEN Thrown("TypeError", rd.buf, aux)
  ELSE IF t = "null"
  THEN Returned(Element(tag, vr, vlString, Null, offset, offset + vl), rd.buf, aux)
  ELSE IF t # ""
  THEN ArrayElement(readArray(rd, offset, vl, t), tag, vr, vlString, vl, offset, t, aux)
  \* 64-bit floats are outside the values held here
  ELSE IF vr = VR_FD THEN Thrown("Unmodelled", rd.buf, aux)
  ELSE IF vr = VR_AT
  THEN AttributeElement(readArray(rd, offset, vl, "Uint16Array"), tag, vr, vlString, vl,
                        offset, aux)
  ELSE IF vr = VR_SQ
  THEN SequenceElement(IF vlString = UL
                       THEN readSequenceUntilDelim(rd, offset, implicit, des, <<>>)
                       ELSE IF vl # 0
                       THEN readSequenceItems(rd, offset, offset + vl, implicit, des, <<>>)
                       ELSE ItemData("", <<>>, offset, FALSE, rd.buf),
                       tag, vr, vlString, offset, aux)
  ELSE IF ~InRange(rd.buf, offset, vl) THEN Thrown("RangeError", rd.buf, aux)
  ELSE StringElement(Split(IF vr \in {VR_SH, VR_LO, VR_ST, VR_PN, VR_LT, VR_UT}
                           THEN readSpecialString(rd, offset, vl)
                           ELSE readString(rd, offset, vl), 92),
                     rd, tag, vr, vlString, vl, offset, aux)
readDataElementValue(rd, implicit, des, tag, vr, vlString, offset, aux) ==
  readDataElementValueOf(rd, implicit, des, tag, vr, vlString,
                         IF vlString = UL THEN 0 ELSE vlString,
                         ValueArrayType(des, tag, vr, vlString), offset, aux)

\* readDataElement, 'Value Length (VL)': 32 or 16 bits, 'u/l' for 0xffffffff.
VlString(vl) == IF vl = xFFFFFFFF THEN UL ELSE vl
readDataElementLength(rd, implicit, des, tag, vr, is32bitVLVR, vlOffset, vlSize, aux) ==
  IF ~InRange(rd.buf, vlOffset, vlSize) THEN Thrown("RangeError", rd.buf, aux)
  ELSE readDataElementValue(rd, implicit, des, tag, vr,
                            VlString(IF is32bitVLVR THEN getUint32(rd.buf, vlOffset, rd.le)
                                     ELSE getUint16(rd.buf, vlOffset, rd.le)),
                            vlOffset + vlSize, aux)

\* readDataElement, after the VR: the header that was read, then the length.
readDataElementHeader(rd, offset, implicit, des, tag, vr, is32bitVLVR, vlOffset, vlSize) ==
  readDataElementLength(rd, implicit, des, tag, vr, is32bitVLVR, vlOffset, vlSize,
                        Aux(offset, tag, vr, implicit, is32bitVLVR, vlOffset + vlSize))
\* readDataElement, 'Value Representation (VR)': read for a tag with VR under
\* explicit VR, from the dictionary under implicit VR, 'UN' for an item tag.
readDataElementVR(rd, offset, implicit, des, tag, endOffset, vr, readsVR, is32bitVLVR) ==
  readDataElementHeader(rd, offset, implicit, des, tag, vr, is32bitVLVR,
                        IF readsVR THEN endOffset + 2 + (IF is32bitVLVR THEN 2 ELSE 0)
                        ELSE endOffset,
                        IF is32bitVLVR THEN 4 ELSE 2)
readDataElementTag(rd, offset, implicit, des, t, readsVR, vr) ==
  IF readsVR /\ ~InRange(rd.buf, t.endOffset, 2)
  THEN Thrown("RangeError", rd.buf, NoAux)
  ELSE readDataElementVR(rd, offset, implicit, des,
                         [group |-> t.group, element |-> t.element, name |-> t.name],
                         t.endOffset, vr, readsVR,
                         IF readsVR THEN is32bitVLVRFunc(vr) ELSE TRUE)
HeaderVR(rd, implicit, t) ==
  IF ~isTagWithVR(t.group, t.element) THEN VR_UN
  ELSE IF implicit THEN DictionaryVR(t.name)
  ELSE IF InRange(rd.buf, t.endOffset, 2) THEN readString(rd, t.endOffset, 2)
  ELSE <<>>
readDataElementOf(rd, offset, implicit, des, t) ==
  readDataElementTag(rd, offset, implicit, des, t,
                     isTagWithVR(t.group, t.element) /\ ~implicit, HeaderVR(rd, implicit, t))

\* DicomParser.readDataElement: tag, VR, VL, then the value.  des is
\* this.dicomElements, which the pixel data branch consults.
readDataElement(rd, offset, implicit, des) ==
  IF ~InRange(rd.buf, offset, 4) THEN Thrown("RangeError", rd.buf, NoAux)
  ELSE readDataElementOf(rd, offset, implicit, des, readTag(rd, offset))

(***************************************************************************)
(* The input buffers.  A reference encoding of DICOM part 10 files, after  *)
(* the standard (PS3.5 chapter 7, PS3.10 chapter 7) and independent of the *)
(* writer under verification: the preamble, 'DICM', the File Meta group in *)
(* Explicit VR Little Endian and a Data Set in the transfer syntax.        *)
(***************************************************************************)
Bytes16(n, le) == IF le THEN <<n % 256, n \div 256>> ELSE <<n \div 256, n % 256>>
Bytes32(n, le) ==
  IF le THEN <<n % 256, (n \div 256) % 256, (n \div 65536) % 256, n \div 16777216>>
  ELSE <<n \div 16777216, (n \div 65536) % 256, (n \div 256) % 256, n % 256>>
UndefinedLength == <<255, 255, 255, 255>>
Words16(ns, le) == Flatten([i \in 1..Len(ns) |-> Bytes16(ns[i], le)])
Zeros(n) == [i \in 1..n |-> 0]
\* A value padded to even length with the pad byte of its VR.
Padded(bytes, pad) == IF Len(bytes) % 2 = 1 THEN Append(bytes, pad) ELSE bytes

\* The VRs with the long explicit header in the standard.
StandardLongVRs == {VR_OB, VR_OW, VR_OF, VR_OD, VR_SQ, VR_UT, VR_UN}

\* One data element; len is the length word: Len(value), or -1 for undefined.
RefElement(g, e, vr, len, value, implicit, le) ==
  LET tag == Bytes16(g, le) \o Bytes16(e, le)
      len32 == IF len < 0 THEN UndefinedLength ELSE Bytes32(len, le)
  IN IF implicit THEN tag \o len32 \o value
     ELSE IF vr \in StandardLongVRs THEN tag \o vr \o <<0, 0>> \o len32 \o value
     ELSE tag \o vr \o Bytes16(len, le) \o value
RefDefined(g, e, vr, value, implicit, le) ==
  RefElement(g, e, vr, Len(value), value, implicit, le)

\* Items and delimitation items: a tag and a 32-bit length, no VR.
RefItemDelim(le) == Bytes16(65534, le) \o Bytes16(57357, le) \o Zeros(4)
RefSeqDelim(le) == Bytes16(65534, le) \o Bytes16(57565, le) \o Zeros(4)
RefItem(content, undefinedLength, le) ==
  Bytes16(65534, le) \o Bytes16(57344, le) \o
  (IF undefinedLength THEN UndefinedLength \o content \o RefItemDelim(le)
   ELSE Bytes32(Len(content), le) \o content)
\* A sequence of items, of explicit or of undefined length.
RefSequence(g, e, items, undefinedLength, implicit, le) ==
  IF undefinedLength
  THEN RefElement(g, e, VR_SQ, -1, Flatten(items) \o RefSeqDelim(le), implicit, le)
  ELSE RefDefined(g, e, VR_SQ, Flatten(items), implicit, le)
\* Encapsulated pixel data: the basic offset table, the fragments, the
\* sequence delimitation item.
RefEncapsulated(offsetTable, fragments, implicit, le) ==
  RefElement(32736, 16, VR_OB, -1,
             RefItem(offsetTable, FALSE, le) \o
             Flatten([i \in 1..Len(fragments) |-> RefItem(fragments[i], FALSE, le)]) \o
             RefSeqDelim(le),
             implicit, le)

\* The File Meta group: the group length, the version, the transfer syntax
\* and, when asked for, the implementation class UID and version name.
RefMetaVersion == RefDefined(2, 1, VR_OB, <<0, 1>>, FALSE, TRUE)
RefMetaSyntax(syntax) == RefDefined(2, 16, VR_UI, Padded(syntax, 0), FALSE, TRUE)
RefMetaImplementation ==
  RefDefined(2, 18, VR_UI, <<49, 46, 50, 46, 51, 0>>, FALSE, TRUE) \o
  RefDefined(2, 19, VR_SH, <<86, 49>>, FALSE, TRUE)
RefMeta(rest) == RefDefined(2, 0, VR_UL, Bytes32(Len(rest), TRUE), FALSE, TRUE) \o rest

PreambleSize == 128
DICM == <<68, 73, 67, 77>>
RefFile(meta, dataSet) == Zeros(PreambleSize) \o DICM \o meta \o dataSet

\* The data sets of the input files, by name, in a transfer syntax.
Str_1_2 == <<49, 46, 50>>
ImageAttributes(bitsAllocated, implicit, le) ==
  RefDefined(40, 2, VR_US, Bytes16(1, le), implicit, le) \o
  RefDefined(40, 16, VR_US, Bytes16(1, le), implicit, le) \o
  RefDefined(40, 17, VR_US, Bytes16(2, le), implicit, le) \o
  RefDefined(40, 256, VR_US, Bytes16(bitsAllocated, le), implicit, le) \o
  RefDefined(40, 259, VR_US, Bytes16(0, le), implicit, le)
\* The attributes of an image of two frames of 8 bits allocated.
FramesAttributes(implicit, le) ==
  RefDefined(40, 2, VR_US, Bytes16(1, le), implicit, le) \o
  RefDefined(40, 8, VR_IS, <<50, 32>>, implicit, le) \o
  RefDefined(40, 16, VR_US, Bytes16(1, le), implicit, le) \o
  RefDefined(40, 17, VR_US, Bytes16(2, le), implicit, le) \o
  RefDefined(40, 256, VR_US, Bytes16(8, le), implicit, le) \o
  RefDefined(40, 259, VR_US, Bytes16(0, le), implicit, le)
ReferencedImage(implicit, le) ==
  RefDefined(8, 4432, VR_UI, Padded(Str_1_2, 0), implicit, le)
DataSet(body, implicit, le) ==
  CASE body = "empty" -> <<>>
    [] body = "patient" ->
         RefDefined(16, 16, VR_PN, <<65, 94, 66, 32>>, implicit, le) \o
         RefDefined(32, 19, VR_IS, <<49, 32>>, implicit, le)
    [] body = "values" ->
         RefDefined(16, 16, VR_PN, <<65, 92, 66, 32>>, implicit, le) \o
         RefDefined(40, 9, VR_AT, Words16(<<24, 4195>>, le), implicit, le)
    [] body = "utf8" ->
         RefDefined(8, 5, VR_CS, <<73, 83, 79, 95, 73, 82, 32, 49, 57, 50>>, implicit, le) \o
         RefDefined(16, 16, VR_PN, <<195, 169, 65, 32>>, implicit, le)
    [] body = "image" ->
         ImageAttributes(16, implicit, le) \o
         RefDefined(32736, 16, VR_OW, Words16(<<1, 258>>, le), implicit, le)
    [] body = "frames" ->
         RefDefined(40, 2, VR_US, Bytes16(1, le), implicit, le) \o
         RefDefined(40, 8, VR_IS, <<50, 32>>, implicit, le) \o
         RefDefined(40, 16, VR_US, Bytes16(1, le), implicit, le) \o
         RefDefined(40, 17, VR_US, Bytes16(1, le), implicit, le) \o
         RefDefined(40, 256, VR_US, Bytes16(8, le), implicit, le) \o
         RefDefined(40, 259, VR_US, Bytes16(0, le), implicit, le) \o
         RefDefined(32736, 16, VR_OB, <<7, 9>>, implicit, le)
    [] body = "colour" ->
         RefDefined(40, 2, VR_US, Bytes16(3, le), implicit, le) \o
         RefDefined(40, 8, VR_IS, <<50, 32>>, implicit, le) \o
         RefDefined(40, 16, VR_US, Bytes16(1, le), implicit, le) \o
         RefDefined(40, 17, VR_US, Bytes16(2, le), implicit, le) \o
         RefDefined(40, 256, VR_US, Bytes16(8, le), implicit, le) \o
         RefDefined(40, 259, VR_US, Bytes16(0, le), implicit, le) \o
         RefDefined(32736, 16, VR_OB, <<1, 2, 3, 4, 5, 6, 7, 8, 9, 10, 11, 12>>, implicit, le)
    [] body = "sequence" ->
         RefSequence(8, 4416, <<RefItem(ReferencedImage(implicit, le), FALSE, le)>>,
                     FALSE, implicit, le)
    [] body = "undefined" ->
         RefSequence(8, 4416, <<RefItem(ReferencedImage(implicit, le), TRUE, le)>>,
                     TRUE, implicit, le) \o
         RefDefined(16, 16, VR_PN, <<65, 32>>, implicit, le)
    [] body = "encapsulated" ->
         ImageAttributes(8, implicit, le) \o
         RefEncapsulated(<<>>, <<(<<255, 216, 255, 217>>)>>, implicit, le)
    [] body = "fragments" ->
         ImageAttributes(8, implicit, le) \o
         RefEncapsulated(Zeros(4), <<(<<255, 216>>), (<<255, 217>>)>>, implicit, le)
    [] body = "grouped" ->
         FramesAttributes(implicit, le) \o
         RefEncapsulated(Bytes32(0, le) \o Bytes32(20, le),
                         <<(<<255, 216>>), (<<255, 217>>), (<<255, 218>>), (<<255, 219>>)>>,
                         implicit, le)
    [] body = "uneven" ->
         FramesAttributes(implicit, le) \o
         RefEncapsulated(Bytes32(0, le) \o Bytes32(20, le),
                         <<(<<255, 216>>), (<<255, 217>>), (<<255, 218>>)>>, implicit, le)
    [] body = "double" ->
         RefDefined(32736, 9, VR_OD, Zeros(8), implicit, le)
    [] body = "private" ->
         RefDefined(9, 16, VR_UN, <<1, 2>>, implicit, le)
    \* 12 bits allocated, and pixel data of length 4 with 2 bytes of value
    [] body = "short" ->
         ImageAttributes(12, implicit, le) \o
         RefElement(32736, 16, VR_OW, 4, <<1, 2>>, implicit, le)
    \* the same pixel data in the item of a sequence, the lengths of the item
    \* and of the sequence being those of the bytes that are there
    [] body = "nested" ->
         ImageAttributes(12, implicit, le) \o
         RefSequence(8, 4416,
                     <<RefItem(RefElement(32736, 16, VR_OW, 4, <<1, 2>>, implicit, le),
                               FALSE, le)>>,
                     FALSE, implicit, le)
    \* a patient name of undefined length, with no delimiter, then an
    \* instance number
    [] body = "unbounded" ->
         RefElement(16, 16, VR_PN, -1, <<>>, implicit, le) \o
         RefDefined(32, 19, VR_IS, <<49, 32>>, implicit, le)

\* The transfer syntaxes of the input files: the nine of the supported set
\* and, of the others, JPEG 2000 part 2 (.4.92), a retired JPEG (.4.55),
\* JPEG-LS (.4.80), RLE (.5) and deflated (.1.99).
UidRLE == Uid(<<46, 53>>)
UidDeflated == Uid(<<46, 49, 46, 57, 57>>)
UncompressedSyntaxes == {UidImplicitLE, UidExplicitLE, UidExplicitBE}
CompressedSyntaxes ==
  {UidJpeg(5, 0), UidJpeg(5, 1), UidJpeg(5, 7), UidJpeg(7, 0), UidJpeg(9, 0), UidJpeg(9, 1)}
SupportedSyntaxes == UncompressedSyntaxes \cup CompressedSyntaxes
OtherSyntaxes == {UidJpeg(9, 2), UidJpeg(5, 5), UidJpeg(8, 0), UidRLE, UidDeflated}

UncompressedBodies ==
  {"empty", "patient", "values", "utf8", "image", "frames", "colour", "sequence",
   "undefined", "encapsulated", "double", "private"}
CompressedBodies == {"empty", "encapsulated", "fragments", "grouped", "uneven"}

\* An input: the transfer syntax, the data set, whether the File Meta group
\* carries (0002,0012) and (0002,0013), and the damage done to the file.
Input(syntax, body, implementation, damage) ==
  [syntax |-> syntax, body |-> body, implementation |-> implementation, damage |-> damage]
Inputs ==
  {Input(ts, b, i, "none") : ts \in UncompressedSyntaxes, b \in UncompressedBodies,
                             i \in BOOLEAN}
  \cup {Input(ts, b, FALSE, "none") : ts \in CompressedSyntaxes, b \in CompressedBodies}
  \cup {Input(ts, "patient", FALSE, "none") : ts \in OtherSyntaxes}
  \cup {Input(UidImplicitLE, "unbounded", FALSE, "none")}
  \cup {Input(ts, b, FALSE, "none") : ts \in UncompressedSyntaxes, b \in {"short", "nested"}}
  \cup {Input(ts, b, FALSE, d) : ts \in UncompressedSyntaxes, b \in {"empty", "image"},
                                d \in {"magic", "nosyntax", "truncated", "overrun"}}

\* The bytes of an input.  Damage: a wrong magic word; a File Meta group
\* without (0002,0010); a file cut two bytes short; a group length that
\* runs over the first four bytes of the data set.
MetaRest(in) ==
  RefMetaVersion \o
  (IF in.damage = "nosyntax" THEN <<>> ELSE RefMetaSyntax(in.syntax)) \o
  (IF in.implementation THEN RefMetaImplementation ELSE <<>>)
InputBuffer(in) ==
  LET implicit == in.syntax = UidImplicitLE
      le == in.syntax # UidExplicitBE
      rest == MetaRest(in)
      meta == IF in.damage = "overrun"
              THEN RefDefined(2, 0, VR_UL, Bytes32(Len(rest) + 4, TRUE), FALSE, TRUE) \o rest
              ELSE RefMeta(rest)
      file == Zeros(PreambleSize) \o
              (IF in.damage = "magic" THEN <<68, 73, 67, 79>> ELSE DICM) \o
              meta \o DataSet(in.body, implicit, le)
  IN IF in.damage = "truncated" THEN SubSeq(file, 1, Len(file) - 2) ELSE file

(***************************************************************************)
(* The state: one ArrayBuffer, the parser working on it, and the platform. *)
(***************************************************************************)
VARIABLES
  input,         \* the input file that was built (its description)
  original,      \* the bytes of the buffer when it was handed to parse
  buffer,        \* the bytes of the buffer now
  native,        \* isNativeLittleEndian of the platform
  run,           \* "first" parse of the input, "again" on the same buffer,
                 \* "written" once getBuffer ran, "rewritten" once it ran
                 \* again, "reparse" of what it first gave
  pc,            \* where parse is: "magic", "length", "meta", "syntax",
                 \* "data", "pixels"; "done" when it returned, "failed"
                 \* when it threw
  error,         \* the error parse threw, "" for none
  dicomElements, \* this.dicomElements of the parser
  offset,        \* parse's local offset
  metaEnd,       \* parse's local metaEnd, -1 for NaN
  syntax,        \* parse's local syntax
  implicit,      \* parse's local implicit
  dataReader,    \* parse's local dataReader: its endianness and utf label
  header,        \* the header the last readDataElement of parse read
  dataReads,     \* the readDataElement calls of the Data Set loop so far
  first,         \* what the first parse left: its error and elements
  written,       \* what getBuffer gave for the elements of the first parse
  rewritten      \* what a second getBuffer gave for the same elements

parserVars ==
  <<pc, error, dicomElements, offset, metaEnd, syntax, implicit, dataReader,
    header, dataReads>>
\* The state of a DicomBufferToView, of its pixel decoder and of the thread
\* pool and worker threads behind it.
VARIABLES
  readOnlyConst, \* whether the build keeps `const runningTask` read-only
  conversions,   \* the convert calls so far: their frames, pixelBuffer, image
  pixelDecoder,  \* the pixelDecoder of the DicomBufferToView and its handlers
  pool,          \* taskQueue, freeThreads and runningThreads of the ThreadPool
  threads,       \* the WorkerThreads made so far: runningTask and worker
  events,        \* the events and callbacks delivered so far, in order
  aborts         \* the abort calls so far

pipelineVars ==
  <<readOnlyConst, conversions, pixelDecoder, pool, threads, events, aborts>>

\* An Image of several slices and the appendSlice calls on it.
VARIABLES
  image,         \* the Image: geometry, buffer, rsis, overlays, meta
  appended       \* the appendSlice calls so far and what the last one gave

imageVars == <<image, appended>>

\* The ImageFactory: what its last create call was given and made.
VARIABLES
  created        \* the spacing elements of the last create call, its spacing

factoryVars == <<created>>

vars ==
  <<input, original, buffer, native, run, first, written, rewritten, parserVars,
    pipelineVars, imageVars, factoryVars>>

\* A parser just constructed, about to parse: this.dicomElements = {}.
NewParser ==
  /\ pc = "magic"
  /\ error = ""
  /\ dicomElements = <<>>
  /\ offset = 0
  /\ metaEnd = 0
  /\ syntax = <<>>
  /\ implicit = FALSE
  /\ dataReader = [le |-> TRUE, label |-> "iso-8859-1"]
  /\ header = NoAux
  /\ dataReads = 0
NoParse == [error |-> "", elements |-> <<>>, buffer |-> <<>>]
NotWritten ==
  [rules |-> "", err |-> "", buffer |-> <<>>, totalSize |-> 0, metaLength |-> 0,
   metaEndOffset |-> 0, offset |-> 0, kept |-> <<>>]

\* The bounds of the images: the appendSlice calls on an image and the
\* origins (along the normal of the slices) a slice may have.
MaxAppends == 2
MaxSets == 1
\* The bound of the ImageFactory: its create calls.
MaxCreates == 2
MaxOrigin == 2

\* The meta information ImageFactory.create gives an image.
MetaCT == [Modality |-> "CT", IsSigned |-> FALSE]
MetaMR == [Modality |-> "MR", IsSigned |-> FALSE]
MetaCTBits == [Modality |-> "CT", IsSigned |-> FALSE, BitsStored |-> 8]
MetaOnlySign == [IsSigned |-> FALSE]
Metas == {MetaCT, MetaMR, MetaCTBits, MetaOnlySign}
Photometrics == {"MONOCHROME2", "RGB"}

\* The values per pixel the buffer of a photometric interpretation holds.
Components(photometricInterpretation) ==
  IF photometricInterpretation \in {"RGB", "YBR_FULL_422"} THEN 3 ELSE 1

\* new Image(geometry, buffer) with its photometric interpretation and meta
\* set: one frame, slices at the origins, each slice filled with the
\* number 10 + its origin, rsis (1, 0) and overlay origin per slice.
NewImage(columns, rows, origins, photometricInterpretation, meta) ==
  [null |-> FALSE, columns |-> columns, rows |-> rows,
   numberOfSlices |-> Len(origins), origins |-> origins,
   buffer |-> Flatten([s \in 1..Len(origins) |->
                [i \in 1..(Components(photometricInterpretation) * columns * rows)
                   |-> 10 + origins[s]]]),
   rsis |-> [s \in 1..Len(origins) |-> [slope |-> 1, intercept |-> 0]],
   overlays |-> [s \in 1..Len(origins) |-> origins[s]],
   isIdentityRSI |-> TRUE, isConstantRSI |-> TRUE,
   photometricInterpretation |-> photometricInterpretation, meta |-> meta]
NullImage ==
  [null |-> TRUE, columns |-> 0, rows |-> 0, numberOfSlices |-> 0,
   origins |-> <<>>, buffer |-> <<>>, rsis |-> <<>>, overlays |-> <<>>,
   isIdentityRSI |-> TRUE, isConstantRSI |-> TRUE,
   photometricInterpretation |-> "", meta |-> MetaOnlySign]

\* RescaleSlopeAndIntercept.isID
isID(rsi) == rsi.slope = 1 /\ rsi.intercept = 0
\* Image.setRescaleSlopeAndIntercept(inRsi, k): rsis[k] = inRsi and the
\* flags recomputed over all the rsis.
setRescaleSlopeAndIntercept(img, inRsi, k) ==
  LET set == [img.rsis EXCEPT ![k + 1] = inRsi]
  IN  [img EXCEPT
         !.rsis = set,
         !.isIdentityRSI = \A s \in 1..Len(set) : isID(set[s]),
         !.isConstantRSI = \A s \in 2..Len(set) : set[s] = set[s - 1]]
\* The rescale slopes and intercepts of the slices: the identity and another.
Rsis == {[slope |-> 1, intercept |-> 0], [slope |-> 2, intercept |-> 1]}
\* The images appendSlice is handed: null, images of one slice and of two.
Slices ==
  {NullImage}
  \cup {setRescaleSlopeAndIntercept(NewImage(c, r, <<z>>, p, m), rsi, 0) :
          c \in 1..2, r \in 1..2, z \in 0..MaxOrigin, p \in Photometrics,
          m \in Metas, rsi \in Rsis}
  \cup {NewImage(1, 1, <<z, z + 1>>, "MONOCHROME2", MetaCT) : z \in 0..1}
NotAppended ==
  [count |-> 0, sets |-> 0, rhs |-> NullImage, err |-> "", newSliceNb |-> 0]
FirstImage ==
  /\ image = NewImage(1, 1, <<0>>, "MONOCHROME2", MetaCT)
  /\ appended = NotAppended

\* The value of an element that is not in the DICOM elements, and the
\* values a spacing element (DS, split on the backslash) may have.
Absent == [present |-> FALSE, value |-> <<>>]
Present(value) == [present |-> TRUE, value |-> value]
SpacingValues ==
  {<<<<49>>, <<50>>>>, <<<<50>>, <<49>>>>, <<<<51>>>>, <<<<49, 50>>>>,
   <<<<>>, <<50>>>>, <<<<50>>, <<>>>>, <<<<48>>, <<48>>>>, <<<<120>>, <<50>>>>,
   <<<<49>>, <<50>>, <<51>>>>, <<<<32, 52>>, <<53, 32>>>>}
SpacingElements == {Absent} \cup {Present(v) : v \in SpacingValues}
\* A number, and null.
Number(n) == [type |-> "number", n |-> n]
JsNull == [type |-> "null", n |-> 0]
NotCreated ==
  [count |-> 0, pixelSpacing |-> Absent, imagerPixelSpacing |-> Absent,
   columnSpacing |-> JsNull, rowSpacing |-> JsNull]

\* The bounds of the conversions: the threads of the pool, the frames of a
\* buffer, the convert calls and the abort calls of one DicomBufferToView.
PoolSize == 2
MaxFrames == 3
MaxConversions == 2
MaxAborts == 1

\* A WorkerThread just constructed: runningTask = {} and no worker.
NoTask == [conv |-> 0, frame |-> 0, aborts |-> 0]
NewThread == [runningTask |-> NoTask, worker |-> "none"]

\* A DicomBufferToView just constructed: pixelDecoder = null, and nothing
\* converted, delivered or aborted yet.
NewDicomBufferToView ==
  /\ conversions = <<>>
  /\ pixelDecoder =
       [made |-> FALSE, ondecoded |-> "default", ondecodeend |-> "default"]
  /\ pool = [taskQueue |-> <<>>, freeThreads |-> <<>>, runningThreads |-> <<>>,
             calls |-> <<>>]
  /\ threads = <<>>
  /\ events = <<>>
  /\ aborts = 0

Init ==
  /\ input \in Inputs
  /\ original = InputBuffer(input)
  /\ buffer = original
  /\ native \in BOOLEAN
  /\ run = "first"
  /\ first = NoParse
  /\ written = NotWritten
  /\ rewritten = NotWritten
  /\ NewParser
  /\ readOnlyConst = TRUE
  /\ NewDicomBufferToView
  /\ FirstImage
  /\ created = NotCreated

\* The readers of parse: metaReader = new DataReader(buffer) and dataReader.
\* A meta reader that would follow a big endian transfer syntax.
metaReaderBigEndian == DataReader(buffer, FALSE, native)
metaReader == DataReader(buffer, TRUE, native)
TheDataReader == [DataReader(buffer, dataReader.le, native) EXCEPT !.label = dataReader.label]

\* parse throws.
Throw(kind) ==
  /\ pc' = "failed"
  /\ error' = kind

\* parseInt(value[0], 10) of an element value; NaN is -1.
RECURSIVE DigitsPrefix(_, _)
DigitsPrefix(s, acc) ==
  IF s = <<>> \/ s[1] < 48 \/ s[1] > 57 THEN acc
  ELSE DigitsPrefix(Tail(s), (IF acc < 0 THEN 0 ELSE acc) * 10 + (s[1] - 48))
ParseInt(v) ==
  IF IsTypedArray(v) THEN (IF Len(v.data) >= 1 THEN v.data[1] ELSE -1)
  ELSE IF v.t = "Array" /\ Len(v.cells) >= 1 /\ v.cells[1].k = "string"
  THEN DigitsPrefix(TrimLeft(v.cells[1].s), -1)
  ELSE -1

\* A parse that would take any four bytes for the magic word.
anyMagicWord(magicword) == TRUE
\* parse: magicword !== 'DICM', negated.
isMagicWord(magicword) == magicword = DICM

\* parse, 'magic word': bytes 128 to 132.
ParseMagic ==
  /\ pc = "magic"
  /\ IF ~InRange(buffer, PreambleSize, 4)
     THEN Throw("RangeError") /\ UNCHANGED offset
     ELSE IF ~isMagicWord(readString(metaReader, PreambleSize, 4))
     THEN Throw("NotDicom") /\ offset' = PreambleSize + 4
     ELSE pc' = "length" /\ offset' = PreambleSize + 4 /\ UNCHANGED error
  /\ UNCHANGED <<factoryVars, imageVars, pipelineVars, input, written, rewritten, original, buffer, native, run, first, dicomElements, metaEnd,
                 syntax, implicit, dataReader, header, dataReads>>

\* parse, 'FileMetaInformationGroupLength': the first element, and metaEnd.
ParseGroupLength ==
  /\ pc = "length"
  /\ \E r \in {readDataElement(metaReader, offset, FALSE, dicomElements)} :
        /\ buffer' = r.buf
        /\ header' = r.aux
        /\ IF r.err # ""
           THEN Throw(r.err) /\ UNCHANGED <<dicomElements, offset, metaEnd>>
           ELSE IF r.el.value.t = "null"
           THEN /\ Throw("TypeError")
                /\ dicomElements' = Put(dicomElements, r.el)
                /\ offset' = r.el.endOffset
                /\ UNCHANGED metaEnd
           ELSE /\ pc' = "meta"
                /\ dicomElements' = Put(dicomElements, r.el)
                /\ offset' = r.el.endOffset
                /\ metaEnd' = IF ParseInt(r.el.value) < 0 THEN -1
                              ELSE r.el.endOffset + ParseInt(r.el.value)
                /\ UNCHANGED error
  /\ UNCHANGED <<factoryVars, imageVars, pipelineVars, input, written, rewritten, original, native, run, first, syntax, implicit, dataReader, dataReads>>

\* parse, 'meta elements': one turn of while (offset < metaEnd).
ParseMetaElement ==
  /\ pc = "meta"
  /\ offset < metaEnd
  /\ \E r \in {readDataElement(metaReader, offset, FALSE, dicomElements)} :
        /\ buffer' = r.buf
        /\ header' = r.aux
        /\ IF r.err # ""
           THEN Throw(r.err) /\ UNCHANGED <<dicomElements, offset>>
           ELSE /\ dicomElements' = Put(dicomElements, r.el)
                /\ offset' = r.el.endOffset
                /\ UNCHANGED <<pc, error>>
  /\ UNCHANGED <<factoryVars, imageVars, pipelineVars, input, written, rewritten, original, native, run, first, metaEnd, syntax, implicit,
                 dataReader, dataReads>>

\* value[0] of an element value is a string.
HasString0(v) == v.t = "Array" /\ Len(v.cells) >= 1 /\ v.cells[1].k = "string"

\* parse, 'check the TransferSyntaxUID' to 'default character set', once
\* the meta loop is over.  A value[0] that is no string throws a TypeError
\* in cleanString or in isJpeg2000TransferSyntax.
ParseCheckSyntax ==
  /\ pc = "meta"
  /\ ~(offset < metaEnd)
  /\ IF ~Has(dicomElements, x00020010)
     THEN Throw("NotDicom") /\ UNCHANGED <<syntax, implicit, dataReader>>
     ELSE IF ~HasString0(Get(dicomElements, x00020010).value)
     THEN Throw("TypeError") /\ UNCHANGED <<syntax, implicit, dataReader>>
     ELSE LET uid == cleanString(Get(dicomElements, x00020010).value.cells[1].s)
          IN /\ syntax' = uid
             /\ IF ~isReadSupportedTransferSyntax(uid)
                THEN Throw("UnsupportedSyntax") /\ UNCHANGED <<implicit, dataReader>>
                ELSE /\ pc' = "data"
                     /\ implicit' = isImplicitTransferSyntax(uid)
                     /\ dataReader' = [dataReader EXCEPT !.le = ~isBigEndianTransferSyntax(uid)]
                     /\ UNCHANGED error
  /\ UNCHANGED <<factoryVars, imageVars, pipelineVars, input, written, rewritten, original, buffer, native, run, first, dicomElements, offset,
                 metaEnd, header, dataReads>>

\* parse, 'DICOM data elements': one turn of while (offset < buffer.byteLength).
ParseDataElement ==
  /\ pc = "data"
  /\ offset < Len(buffer)
  /\ dataReads' = dataReads + 1
  /\ \E r \in {readDataElement(TheDataReader, offset, implicit, dicomElements)} :
        /\ buffer' = r.buf
        /\ header' = r.aux
        /\ IF r.err # ""
           THEN Throw(r.err) /\ UNCHANGED <<dicomElements, offset, dataReader>>
           ELSE IF r.el.tag.name = x00080005 /\ ~HasString0(r.el.value)
           THEN Throw("TypeError") /\ UNCHANGED <<dicomElements, offset, dataReader>>
           ELSE /\ dataReader' =
                     IF r.el.tag.name = x00080005
                     THEN [dataReader EXCEPT !.label =
                             getUtfLabel(cleanString(
                               IF Len(r.el.value.cells) = 1 THEN r.el.value.cells[1].s
                               ELSE r.el.value.cells[2].s))]
                     ELSE dataReader
                /\ dicomElements' = Put(dicomElements, r.el)
                /\ offset' = r.el.endOffset
                /\ UNCHANGED <<pc, error>>
  /\ UNCHANGED <<factoryVars, imageVars, pipelineVars, input, written, rewritten, original, native, run, first, metaEnd, syntax, implicit>>

\* The number value[0] of an element value is used as; NaN is -1.
ValueNumber(v) ==
  IF IsTypedArray(v) THEN (IF Len(v.data) >= 1 THEN v.data[1] ELSE -1)
  ELSE IF HasString0(v) THEN ToNumber(v.cells[1].s)
  ELSE -1
\* A slice that would always start at the first sample.
SliceFromStart(data, begin, end) ==
  SubSeq(data, 1, IF end - begin > Len(data) THEN Len(data) ELSE end - begin)
\* TypedArray.prototype.slice(begin, end), both not negative.
Slice(data, begin, end) ==
  SubSeq(data, begin + 1, IF end > Len(data) THEN Len(data) ELSE end)
\* element.value[0] can be read: the element is there and its value is not null.
Readable0(des, name) == Has(des, name) /\ Get(des, name).value.t # "null"

\* parse, 'pixel buffer', native pixel data: the frames sliced out of it.
SlicedFrames(des) ==
  LET pixData == Get(des, x7FE00010).value
      numberOfFrames == IF Has(des, x00280008) THEN ValueNumber(Get(des, x00280008).value) ELSE 1
      columns == ValueNumber(Get(des, x00280011).value)
      rows == ValueNumber(Get(des, x00280010).value)
      samplesPerPixel == ValueNumber(Get(des, x00280002).value)
      sliceSize == IF columns < 0 \/ rows < 0 \/ samplesPerPixel < 0 THEN 0
                   ELSE columns * rows * samplesPerPixel
  IN Array([g \in 1..(IF numberOfFrames < 0 THEN 0 ELSE numberOfFrames) |->
              ArrCell(pixData.t, Slice(pixData.data, (g - 1) * sliceSize, g * sliceSize))])

\* parse, 'handle fragmented pixel buffer': nItemPerFrame items make a frame.
ConcatenatedFrames(pixItems, numberOfFrames) ==
  LET nItemPerFrame == Len(pixItems) \div numberOfFrames
  IN Array([f \in 1..numberOfFrames |->
              ArrCell(pixItems[1].a.t,
                      Flatten([j \in 1..nItemPerFrame |->
                                 pixItems[(f - 1) * nItemPerFrame + j].a.data]))])

\* this.dicomElements.x7FE00010.value = value.
WithPixelValue(des, value) == Put(des, [Get(des, x7FE00010) EXCEPT !.value = value])

\* parse, 'pixel buffer', once the data loop is over: the pixel data value
\* becomes an array of frames, and parse returns.
ParsePixelBuffer ==
  /\ pc = "data"
  /\ ~(offset < Len(buffer))
  /\ LET des == dicomElements
         pixels == Get(des, x7FE00010)
         numberOfFrames ==
           IF Has(des, x00280008) THEN ValueNumber(Get(des, x00280008).value) ELSE 1
     IN IF ~Has(des, x7FE00010)
        THEN pc' = "done" /\ UNCHANGED <<error, dicomElements>>
        ELSE IF Has(des, x00280008) /\ ~Readable0(des, x00280008)
        THEN Throw("TypeError") /\ UNCHANGED dicomElements
        ELSE IF pixels.vl # UL
        THEN (IF \/ ~Readable0(des, x00280011)
                 \/ ~Readable0(des, x00280010)
                 \/ ~Readable0(des, x00280002)
                 \/ (pixels.value.t = "null" /\ numberOfFrames >= 1)
              THEN Throw("TypeError") /\ UNCHANGED dicomElements
              ELSE IF pixels.value.t = "Array"
              THEN Throw("Unmodelled") /\ UNCHANGED dicomElements
              ELSE /\ pc' = "done"
                   /\ dicomElements' = WithPixelValue(des, SlicedFrames(des))
                   /\ UNCHANGED error)
        ELSE LET pixItems == pixels.value.cells
             IN IF Len(pixItems) > 1 /\ numberOfFrames >= 0 /\ Len(pixItems) > numberOfFrames
                THEN (IF numberOfFrames = 0
                      THEN /\ pc' = "done"
                           /\ dicomElements' = WithPixelValue(des, Array(<<>>))
                           /\ UNCHANGED error
                      ELSE IF Len(pixItems) % numberOfFrames # 0
                      THEN Throw("TypeError") /\ UNCHANGED dicomElements
                      ELSE /\ pc' = "done"
                           /\ dicomElements' =
                                WithPixelValue(des, ConcatenatedFrames(pixItems, numberOfFrames))
                           /\ UNCHANGED error)
                ELSE pc' = "done" /\ UNCHANGED <<error, dicomElements>>
  /\ UNCHANGED <<factoryVars, imageVars, pipelineVars, input, written, rewritten, original, buffer, native, run, first, offset, metaEnd, syntax,
                 implicit, dataReader, header, dataReads>>

\* A second parser, new DicomParser().parse(buffer), on the buffer the
\* first one was given.
ParseAgain ==
  /\ run = "first"
  /\ pc \in {"done", "failed"}
  /\ run' = "again"
  /\ first' = [error |-> error, elements |-> dicomElements, buffer |-> buffer]
  /\ pc' = "magic"
  /\ error' = ""
  /\ dicomElements' = <<>>
  /\ offset' = 0
  /\ metaEnd' = 0
  /\ syntax' = <<>>
  /\ implicit' = FALSE
  /\ dataReader' = [le |-> TRUE, label |-> "iso-8859-1"]
  /\ header' = NoAux
  /\ dataReads' = 0
  /\ UNCHANGED <<factoryVars, imageVars, pipelineVars, input, written, rewritten, original, buffer, native>>

(***************************************************************************)
(* DataWriter.  A write is [buf, off, err]: the bytes of the ArrayBuffer,  *)
(* the offset the write returns, and the error thrown ("" for none); once  *)
(* an error is thrown nothing more is written.                             *)
(***************************************************************************)
Written(buf, off) == [buf |-> buf, off |-> off, err |-> ""]
Failed(w, kind) == IF w.err # "" THEN w ELSE [w EXCEPT !.err = kind]

\* DataView.set*: the bytes at the offset, RangeError outside the buffer.
setBytes(w, bytes) ==
  IF w.err # "" THEN w
  ELSE IF w.off < 0 \/ w.off + Len(bytes) > Len(w.buf) THEN Failed(w, "RangeError")
  ELSE Written([i \in 1..Len(w.buf) |->
                  IF i > w.off /\ i <= w.off + Len(bytes) THEN bytes[i - w.off]
                  ELSE w.buf[i]],
               w.off + Len(bytes))

\* The bytes of the low w bytes of a number in two's complement.
WordBytes(value, w, le) ==
  LET b == [i \in 1..w |->
              CASE i = 1 -> value % 256
                [] i = 2 -> (value \div 256) % 256
                [] i = 3 -> (value \div 65536) % 256
                [] i = 4 -> (value \div 16777216) % 256]
  IN IF le THEN b ELSE [i \in 1..w |-> b[w + 1 - i]]

\* DataWriter.writeUint8 .. writeFloat32 of a number (a float is held as
\* its bit pattern): the set<T> of the DataView wraps the number.
writeWord(w, value, bytes, le) == setBytes(w, WordBytes(value, bytes, le))
writeUint16(w, value, le) == writeWord(w, value, 2, le)
writeUint32(w, value, le) == writeWord(w, value, 4, le)
\* DataWriter.writeHex of the digits of '0x####'.
writeHex(w, str, le) == writeUint16(w, ParseHex4(str), le)
\* DataWriter.writeString: setUint8 of each char code.
writeString(w, str) == setBytes(w, [i \in 1..Len(str) |-> str[i] % 256])

\* The number an array cell is written as by a set<T>: NaN is written 0.
CellNumber(c) ==
  CASE c.k = "number" -> c.n
    [] c.k = "string" -> (IF ToNumber(c.s) < 0 THEN 0 ELSE ToNumber(c.s))
    [] OTHER -> 0
\* The numbers of a value: of a typed array, or of an array through set<T>.
ValueNumbers(v) ==
  IF v.t = "Array" THEN [i \in 1..Len(v.cells) |-> CellNumber(v.cells[i])] ELSE v.data

\* DataWriter.write<T>Array: each number in bytes bytes.
writeNumberArray(w, numbers, bytes, le) ==
  setBytes(w, Flatten([i \in 1..Len(numbers) |-> WordBytes(numbers[i], bytes, le)]))

\* Number.prototype.toString of a number that is not negative.
RECURSIVE DecimalString(_)
DecimalString(n) ==
  IF n < 10 THEN <<48 + n>> ELSE Append(DecimalString(n \div 10), 48 + (n % 10))
\* array[i].toString() of an array cell; an object is '[object Object]'.
CellString(c) ==
  CASE c.k = "string" -> c.s
    [] c.k = "number" -> DecimalString(c.n)
    [] c.k = "typed" -> Join([i \in 1..Len(c.a.data) |-> DecimalString(c.a.data[i])], 44)
    [] OTHER -> <<91, 111, 98, 106, 101, 99, 116, 32, 79, 98, 106, 101, 99, 116, 93>>
\* DataWriter.writeStringArray: the strings, a backslash between them.
writeStringArray(w, cells) ==
  writeString(w, Join([i \in 1..Len(cells) |-> CellString(cells[i])], 92))

\* writeDataElementValue, 'AT': the two 16-bit words of each '(GGGG,EEEE)';
\* parseInt gives NaN, written 0, for a string without hexadecimal digits.
AttributeWords(cells) ==
  Flatten([i \in 1..Len(cells) |->
             LET hexString == CellString(cells[i])
                 dec1 == ParseIntHex(SubSeq(hexString, 2, IF Len(hexString) < 5 THEN Len(hexString) ELSE 5))
                 dec2 == ParseIntHex(SubSeq(hexString, 7, IF Len(hexString) < 10 THEN Len(hexString) ELSE 10))
             IN <<IF dec1 < 0 THEN 0 ELSE dec1, IF dec2 < 0 THEN 0 ELSE dec2>>])

\* flattenArrayOfTypedArrays: initialArray.length arrays of the length of
\* the first; set throws RangeError for an array that does not fit.
flattenArrayOfTypedArrays(cells) ==
  LET arrayLength == Len(cells[1].a.data)
      total == Len(cells) * arrayLength
  IN IF \E i \in 1..Len(cells) : (i - 1) * arrayLength + Len(cells[i].a.data) > total
     THEN [err |-> "RangeError", value |-> Null]
     ELSE [err |-> "",
           value |-> TypedArray(cells[1].a.t,
                       [k \in 1..total |->
                          LET i == ((k - 1) \div arrayLength) + 1
                              j == ((k - 1) % arrayLength) + 1
                          IN IF j <= Len(cells[i].a.data) THEN cells[i].a.data[j] ELSE 0])]

\* isImplicitLengthSequence, isImplicitLengthItem, isImplicitLengthPixels
isImplicitLengthSequence(element) == element.vr = VR_SQ /\ element.vl = UL
isImplicitLengthItem(element) == element.tag.name = xFFFEE000 /\ element.vl = UL
isImplicitLengthPixels(element) == element.tag.name = x7FE00010 /\ element.vl = UL

\* The elements the writer makes up: the delimitation items (their tag
\* names are the words 'ItemDelimitationItem', 'SequenceDelimitationItem'),
\* and the items of encapsulated pixel data.
MadeElement(group, element, name, vr, vl, value) ==
  [tag |-> [group |-> Hex4(group), element |-> Hex4(element), name |-> name],
   vr |-> vr, vl |-> vl, value |-> value, startOffset |-> 0, endOffset |-> 0]
itemDelimElement ==
  MadeElement(65534, 57357,
              <<73, 116, 101, 109, 68, 101, 108, 105, 109, 105, 116, 97, 116, 105, 111, 110,
                73, 116, 101, 109>>,
              VR_NONE, 0, Array(<<>>))
seqDelimElement ==
  MadeElement(65534, 57565,
              <<83, 101, 113, 117, 101, 110, 99, 101, 68, 101, 108, 105, 109, 105, 116, 97,
                116, 105, 111, 110, 73, 116, 101, 109>>,
              VR_NONE, 0, Array(<<>>))
PixelItem(vr, vl, value) == MadeElement(65534, 57344, xFFFEE000, vr, vl, value)

\* An item as the writer walks it: Object.keys(item) in order, each key
\* with its element.  The keys of a parsed item are the tag names.
ItemEntries(m) == [i \in 1..Len(m) |-> [key |-> m[i].tag.name, el |-> m[i]]]
ItemOfEntries(entries) == [i \in 1..Len(entries) |-> entries[i].el]
\* The item writePixelDataElementValue makes: the fragments under the keys
\* 0, 1, .. and an empty basic offset table under 'xFFFEE000'; Object.keys
\* gives the integer keys first.
PixelItemEntries(vr, cells) ==
  [i \in 1..Len(cells) |->
     [key |-> <<i - 1>>,
      el |-> PixelItem(vr, Len(cells[i].a.data), TypedArray(cells[i].a.t, cells[i].a.data))]]
  \o <<[key |-> xFFFEE000, el |-> PixelItem(VR_UN, 0, Array(<<>>))]>>

WriteResult(w, x) == [w |-> w, x |-> x]

RECURSIVE writeDataElement(_, _, _, _)
RECURSIVE writeDataElementValue(_, _, _, _, _)
RECURSIVE writeItemRest(_, _, _, _, _)
RECURSIVE writeItem(_, _, _, _)
RECURSIVE writeDataElementItems(_, _, _, _, _)

\* writeDataElementItems, 'write rest', after the write r of the element
\* under key m: the turns on the keys that follow.
writeItemRestStep(r, entries, m, isImplicit, le) ==
  writeItemRest(r.w, [entries EXCEPT ![m].el = r.x], m + 1, isImplicit, le)

\* writeDataElementItems, 'write rest': the elements of the item from key m
\* on, but the item and the item delimitation.
writeItemRest(w, entries, m, isImplicit, le) ==
  IF m > Len(entries) THEN WriteResult(w, entries)
  ELSE IF entries[m].key \in {xFFFEE000, xFFFEE00D}
  THEN writeItemRest(w, entries, m + 1, isImplicit, le)
  ELSE writeItemRestStep(writeDataElement(w, entries[m].el, isImplicit, le),
                         entries, m, isImplicit, le)

\* writeDataElementItems, 'item delimitation': written after the rest of
\* an item that was 'u/l'.
writeItemDelim(rest, implicitLength, isImplicit, le) ==
  IF implicitLength
  THEN WriteResult(writeDataElement(rest.w, itemDelimElement, isImplicit, le).w, rest.x)
  ELSE rest

\* writeDataElementItems, after the write first1 of the item element under
\* key k: the rest, and the item delimitation.
writeItemElements(first1, entries, k, implicitLength, isImplicit, le) ==
  writeItemDelim(writeItemRest(first1.w, [entries EXCEPT ![k].el = first1.x], 1,
                               isImplicit, le),
                 implicitLength, isImplicit, le)

\* writeDataElementItems, 'write item': the item element has its value set
\* to [] and its vl 'u/l' set to 0xffffffff.
writeItemAt(w, entries, k, isImplicit, le) ==
  writeItemElements(
    writeDataElement(w,
                     [entries[k].el EXCEPT !.value = Array(<<>>),
                                           !.vl = IF @ = UL THEN xFFFFFFFF ELSE @],
                     isImplicit, le),
    entries, k, entries[k].el.vl = UL, isImplicit, le)

\* writeDataElementItems, one turn of the loop on the items; an item
\* without the key 'xFFFEE000' has no item element (TypeError).
writeItem(w, entries, isImplicit, le) ==
  IF w.err # "" \/ entries = <<>> THEN WriteResult(w, entries)
  ELSE IF ~\E k \in 1..Len(entries) : entries[k].key = xFFFEE000
  THEN WriteResult(Failed(w, "TypeError"), entries)
  ELSE writeItemAt(w, entries, CHOOSE k \in 1..Len(entries) : entries[k].key = xFFFEE000,
                   isImplicit, le)

\* writeDataElementItems, after the write r of item i: the items that
\* follow.
writeDataElementItemsStep(r, cells, i, isImplicit, le) ==
  writeDataElementItems(r.w, [cells EXCEPT ![i].m = ItemOfEntries(r.x)], i + 1,
                        isImplicit, le)

\* DataWriter.writeDataElementItems, from item i on.
writeDataElementItems(w, cells, i, isImplicit, le) ==
  IF i > Len(cells) THEN WriteResult(w, cells)
  ELSE IF cells[i].k # "object"
  THEN WriteResult(Failed(w, "Unmodelled"), cells)
  ELSE writeDataElementItemsStep(writeItem(w, ItemEntries(cells[i].m), isImplicit, le),
                                 cells, i, isImplicit, le)

\* The write and the value of a sequence whose items r were written.
SequenceWritten(r) == WriteResult(r.w, Array(r.x))

\* DataWriter.writeDataElementValue: by the type of a typed array, by the
\* VR otherwise; null has no length (TypeError).  Gives the value back, the
\* items of a sequence as writeDataElementItems left them.
writeDataElementValue(w, vr, value, isImplicit, le) ==
  CASE w.err # "" -> WriteResult(w, value)
    [] value.t = "null" -> WriteResult(Failed(w, "TypeError"), value)
    [] value.t \in {"Uint8Array", "Int8Array", "Uint16Array", "Int16Array",
                    "Uint32Array", "Int32Array"} ->
         WriteResult(writeNumberArray(w, value.data, BytesPerElement(value.t), le), value)
    [] OTHER ->
         CASE vr \in {VR_UN, VR_OB, VR_OW, VR_US, VR_SS, VR_OF, VR_UL, VR_SL} ->
                WriteResult(writeNumberArray(w, ValueNumbers(value),
                                             CASE vr \in {VR_UN, VR_OB} -> 1
                                               [] vr \in {VR_OW, VR_US, VR_SS} -> 2
                                               [] vr \in {VR_OF, VR_UL, VR_SL} -> 4,
                                             le),
                            value)
           \* this.writeInt64Array is not a function
           [] vr = VR_OD -> WriteResult(Failed(w, "TypeError"), value)
           [] vr = VR_FL ->
                IF value.t = "Float32Array"
                THEN WriteResult(writeNumberArray(w, value.data, 4, le), value)
                ELSE WriteResult(Failed(w, "Unmodelled"), value)
           [] vr = VR_FD -> WriteResult(Failed(w, "Unmodelled"), value)
           [] vr = VR_SQ ->
                IF value.t # "Array" THEN WriteResult(Failed(w, "Unmodelled"), value)
                ELSE SequenceWritten(writeDataElementItems(w, value.cells, 1, isImplicit, le))
           [] vr = VR_AT ->
                IF value.t # "Array" THEN WriteResult(Failed(w, "Unmodelled"), value)
                ELSE WriteResult(writeNumberArray(w, AttributeWords(value.cells), 2, le), value)
           [] OTHER ->
                IF value.t # "Array" THEN WriteResult(Failed(w, "Unmodelled"), value)
                ELSE WriteResult(writeStringArray(w, value.cells), value)

\* writePixelDataElementValue, the value that is written for a vl that is
\* not 'u/l': value[0], or the frames flattened to one array.
PixelFinalValue(cells) ==
  IF Len(cells) > 1 THEN flattenArrayOfTypedArrays(cells)
  ELSE [err |-> "", value |-> TypedArray(cells[1].a.t, cells[1].a.data)]
writePixelFinalValue(w, vr, finalValue, isImplicit, le) ==
  IF finalValue.err # "" THEN Failed(w, finalValue.err)
  ELSE writeDataElementValue(w, vr, finalValue.value, isImplicit, le).w

\* DataWriter.writePixelDataElementValue: the frames flattened to one
\* array, or, for 'u/l', one item made of them.
writePixelDataElementValue(w, vr, vl, value, isImplicit, le) ==
  CASE w.err # "" -> w
    [] value.t = "null" -> Failed(w, "TypeError")
    [] value.t # "Array" \/ \E i \in 1..Len(value.cells) : value.cells[i].k # "typed" ->
         Failed(w, "Unmodelled")
    \* value[0] of an empty array is undefined, which has no length
    [] vl # UL /\ Len(value.cells) = 0 -> Failed(w, "TypeError")
    [] vl # UL -> writePixelFinalValue(w, vr, PixelFinalValue(value.cells), isImplicit, le)
    [] OTHER -> writeItem(w, PixelItemEntries(vr, value.cells), isImplicit, le).w

\* The number setUint16 / setUint32 is given for a vl: 'u/l' is NaN.
VlNumber(vl) == IF vl = UL THEN 0 ELSE vl

\* writeDataElement, after the write r of the value: the sequence
\* delimitation of a 'u/l' sequence or of 'u/l' pixel data.
writeDataElementEnd(r, element, isImplicit, le) ==
  WriteResult(IF isImplicitLengthSequence(element) \/ isImplicitLengthPixels(element)
              THEN writeDataElement(r.w, seqDelimElement, isImplicit, le).w
              ELSE r.w,
              [element EXCEPT !.value = r.x])

\* writeDataElement, 'value': of the pixel data, or of another element.
writeDataElementBody(w, element, isImplicit, le) ==
  writeDataElementEnd(
    IF element.tag.name = x7FE00010
    THEN WriteResult(writePixelDataElementValue(w, element.vr, element.vl, element.value,
                                                isImplicit, le),
                     element.value)
    ELSE writeDataElementValue(w, element.vr, element.value, isImplicit, le),
    element, isImplicit, le)

\* writeDataElement, 'VL': 0xffffffff for the three 'u/l' cases, in 32 or
\* in 16 bits.
writeDataElementVL(w, element, is32bitVLVR, isImplicit, le) ==
  writeDataElementBody(
    writeWord(w,
              IF \/ isImplicitLengthSequence(element)
                 \/ isImplicitLengthItem(element)
                 \/ isImplicitLengthPixels(element)
              THEN xFFFFFFFF ELSE VlNumber(element.vl),
              IF is32bitVLVR THEN 4 ELSE 2, le),
    element, isImplicit, le)

\* writeDataElement, 'VR': the two characters, and two reserved bytes
\* skipped before a 32-bit VL.
writeReserved(w, is32bitVLVR) ==
  IF is32bitVLVR /\ w.err = "" THEN [w EXCEPT !.off = @ + 2] ELSE w
writeDataElementVR(w, element, tagWithVR, is32bitVLVR, isImplicit, le) ==
  writeDataElementVL(
    IF tagWithVR /\ ~isImplicit
    THEN writeReserved(writeString(w, element.vr), is32bitVLVR)
    ELSE w,
    element, is32bitVLVR, isImplicit, le)

\* writeDataElement, 'group' and 'element'.
writeDataElementTag(w, element, tagWithVR, isImplicit, le) ==
  writeDataElementVR(
    writeHex(writeHex(w, element.tag.group, le), element.tag.element, le),
    element, tagWithVR,
    IF isImplicit \/ ~tagWithVR THEN TRUE ELSE is32bitVLVRFunc(element.vr),
    isImplicit, le)

\* DataWriter.writeDataElement: gives the write and the element, the items
\* of its sequence as writeDataElementItems left them.
writeDataElement(w, element, isImplicit, le) ==
  IF w.err # "" THEN WriteResult(w, element)
  ELSE writeDataElementTag(w, element,
                           isTagWithVR(element.tag.group, element.tag.element),
                           isImplicit, le)

(***************************************************************************)
(* DicomWriter: the rules, getElementToWrite, getBuffer.                   *)
(***************************************************************************)
\* A rule { action, value } and the rules of a writer: the rules named by a
\* tag key ('x00100010'), those named by a tag or group name, the default.
Rule(action, value) == [action |-> action, value |-> value]
NoRules == [k \in {} |-> Rule("copy", <<>>)]
Rules(byKey, byName, default) == [key |-> byKey, name |-> byName, default |-> default]
defaultRules == Rules(NoRules, NoRules, Rule("copy", <<>>))

Anonymized == <<65, 110, 111, 110, 121, 109, 105, 122, 101, 100>>
anonymisationRules ==
  Rules(NoRules,
        [n \in {"PatientName", "Meta Element", "Acquisition", "Image Presentation",
                "Procedure", "Pixel Data"} |->
           IF n = "PatientName" THEN Rule("replace", Anonymized) ELSE Rule("copy", <<>>)],
        Rule("remove", <<>>))

\* item.value[0] = str: the first cell of an array (the array grows to hold
\* it), the first number of a typed array (a string that is no number
\* is NaN, which an integer array holds as 0).
SetValue0(v, str) ==
  IF v.t = "Array"
  THEN Array(IF v.cells = <<>> THEN <<StrCell(str)>>
             ELSE [v.cells EXCEPT ![1] = StrCell(str)])
  ELSE IF v.data = <<>> THEN v
  ELSE [v EXCEPT !.data[1] = IF ToNumber(str) < 0 THEN 0 ELSE ToNumber(str)]

\* actions.clear and actions.replace (the value is not null).
clear(item) ==
  [item EXCEPT !.value = SetValue0(@, <<>>), !.vl = 0, !.endOffset = item.startOffset]
replace(item, value) ==
  [item EXCEPT !.value = SetValue0(@, value), !.vl = Len(value),
               !.endOffset = item.startOffset + Len(value)]

\* A look up that would ask the group name before the tag name.
RuleOfGroupFirst(rules, element) ==
  IF element.tag.name \in DOMAIN rules.key THEN rules.key[element.tag.name]
  ELSE IF TagGroups(element.tag.group) \in DOMAIN rules.name
  THEN rules.name[TagGroups(element.tag.group)]
  ELSE IF element.tag.name \in DictionaryKeys
          /\ dictionary[element.tag.name][2] \in DOMAIN rules.name
  THEN rules.name[dictionary[element.tag.name][2]]
  ELSE rules.default
\* getElementToWrite, 'apply rules': the rule of the tag key, of the tag
\* name, of the group name, the default one.
RuleOf(rules, element) ==
  LET groupName == TagGroups(element.tag.group)
  IN IF element.tag.name \in DOMAIN rules.key THEN rules.key[element.tag.name]
     ELSE IF element.tag.name \in DictionaryKeys
             /\ dictionary[element.tag.name][2] \in DOMAIN rules.name
     THEN rules.name[dictionary[element.tag.name][2]]
     ELSE IF groupName \in DOMAIN rules.name THEN rules.name[groupName]
     ELSE rules.default

\* DicomWriter.getElementToWrite: [err, removed, el].  The action works on
\* the element of the map itself, el is what the map holds afterwards.
getElementToWrite(rules, element) ==
  LET rule == RuleOf(rules, element)
  IN CASE rule.action = "copy" -> [err |-> "", removed |-> FALSE, el |-> element]
       [] rule.action = "remove" -> [err |-> "", removed |-> TRUE, el |-> element]
       [] element.value.t = "null" -> [err |-> "TypeError", removed |-> FALSE, el |-> element]
       [] rule.action = "clear" -> [err |-> "", removed |-> FALSE, el |-> clear(element)]
       [] rule.action = "replace" ->
            [err |-> "", removed |-> FALSE, el |-> replace(element, rule.value)]

\* getDicomElement and setElementValue for the three elements getBuffer
\* makes: a string value (vl its length) and the number of a 'UL' (vl 4).
getDicomElement(name) ==
  [tag |-> [group |-> SubSeq(name, 1, 4), element |-> SubSeq(name, 5, 8), name |-> <<>>],
   vr |-> dictionary[name][1], vl |-> 0, value |-> Null, startOffset |-> 0, endOffset |-> 0]
setElementValue(element, value) ==
  IF value.k = "string"
  THEN [element EXCEPT !.value = Array(<<value>>),
                       !.vl = Len(value.s) *
                              (CASE element.vr \in {VR_US, VR_OW, VR_SS} -> 2
                                 [] element.vr \in {VR_UL, VR_SL, VR_FL} -> 4
                                 [] element.vr = VR_FD -> 8
                                 [] OTHER -> 1)]
  ELSE [element EXCEPT !.value = Array(<<value>>),
                       !.vl = CASE element.vr \in {VR_US, VR_OW, VR_SS} -> 2
                                [] element.vr \in {VR_UL, VR_SL, VR_FL} -> 4
                                [] element.vr = VR_FD -> 8
                                [] OTHER -> 1]

\* getVersion, and the values of ImplementationClassUID and
\* ImplementationVersionName: '1.2.826.0.1.3680043.9.7278.1.' and 'DWV_'
\* with the version, the odd one padded with a NUL.
getVersion == <<49, 46, 48, 46, 48>>
icUIDValue ==
  <<49, 46, 50, 46, 56, 50, 54, 46, 48, 46, 49, 46, 51, 54, 56, 48, 48, 52, 51, 46, 57, 46,
    55, 50, 55, 56, 46, 49, 46>> \o getVersion
ivnValue ==
  LET v == <<68, 87, 86, 95>> \o getVersion IN IF Len(v) % 2 = 1 THEN Append(v, 0) ELSE v

\* getBuffer, 'calculate buffer size and split elements': the turns of the
\* loop on the keys from i on.  acc holds the locals totalSize, metaLength,
\* metaElements and rawElements (as keys of the map), the map as the
\* actions leave it, and the error thrown.
RECURSIVE SplitElements(_, _, _, _)

\* The size of an element: its prefix (explicit for a meta element), its
\* value as its offsets tell, and the sequence delimitation of a 'u/l'
\* sequence or of 'u/l' pixel data.
ElementSize(element, isMeta, isImplicit) ==
  getDataElementPrefixByteSize(element.vr, IF isMeta THEN FALSE ELSE isImplicit)
  + (element.endOffset - element.startOffset)
  + (IF isImplicitLengthSequence(element) \/ isImplicitLengthPixels(element)
     THEN getDataElementPrefixByteSize(VR_NONE, isImplicit) ELSE 0)

\* One turn on an element that is written: its size is added, its key goes
\* to the meta or to the raw elements.
SplitElement(acc, i, element, isMeta, localSize) ==
  [acc EXCEPT !.elements[i] = element,
              !.totalSize = @ + localSize,
              !.metaLength = IF isMeta THEN @ + localSize ELSE @,
              !.metaElements = IF isMeta THEN Append(@, i) ELSE @,
              !.rawElements = IF isMeta THEN @ ELSE Append(@, i)]
SplitKept(acc, i, element, isMeta, isImplicit) ==
  SplitElement(acc, i, element, isMeta, ElementSize(element, isMeta, isImplicit))

\* One turn of the loop, r what getElementToWrite gave: a removed element
\* and the three elements getBuffer makes itself are passed over.
SplitElementsStep(acc, i, r, isImplicit) ==
  IF r.err # "" THEN [acc EXCEPT !.err = r.err]
  ELSE IF r.removed \/ r.el.tag.name \in {x00020000, x00020012, x00020013}
  THEN [acc EXCEPT !.elements[i] = r.el]
  ELSE SplitKept(acc, i, r.el, TagGroups(r.el.tag.group) = "Meta Element", isImplicit)

SplitElements(rules, isImplicit, i, acc) ==
  IF i > Len(acc.elements) \/ acc.err # "" THEN acc
  ELSE SplitElements(rules, isImplicit, i + 1,
                     SplitElementsStep(acc, i, getElementToWrite(rules, acc.elements[i]),
                                       isImplicit))

\* getBuffer, 'write meta' and 'write non meta': the elements of the map
\* under the keys, from the j-th on; the map gets each element back as the
\* write left it.
RECURSIVE WriteElements(_, _, _, _, _, _)
WriteElementsStep(r, elements, keys, j, isImplicit, le) ==
  WriteElements(r.w, [elements EXCEPT ![keys[j]] = r.x], keys, j + 1, isImplicit, le)
WriteElements(w, elements, keys, j, isImplicit, le) ==
  IF j > Len(keys) THEN WriteResult(w, elements)
  ELSE WriteElementsStep(writeDataElement(w, elements[keys[j]], isImplicit, le),
                         elements, keys, j, isImplicit, le)

\* What getBuffer gives: the error thrown or the buffer, with the locals
\* totalSize and metaLength, the offset after the meta elements and after
\* the last element, the map as getBuffer leaves it, and the keys of the
\* map that went to metaElements and rawElements.
NoBuffer(err, elements) ==
  [err |-> err, buffer |-> <<>>, totalSize |-> 0, metaLength |-> 0, metaEndOffset |-> 0,
   offset |-> 0, elements |-> elements, kept |-> <<>>]

\* getBuffer, the elements it makes: ImplementationClassUID,
\* ImplementationVersionName and FileMetaInformationGroupLength, and the
\* size of each, its prefix computed with isImplicit.
icUID == setElementValue(getDicomElement(x00020012), StrCell(icUIDValue))
ivn == setElementValue(getDicomElement(x00020013), StrCell(ivnValue))
fmigl(metaLength) == setElementValue(getDicomElement(x00020000), NumCell(metaLength))
MadeSize(element, isImplicit) ==
  getDataElementPrefixByteSize(element.vr, isImplicit) + element.vl

\* getBuffer, the return: the buffer of the writes, raw the last of them.
getBufferResult(totalSize, metaLength, wMeta, raw, kept) ==
  [err |-> raw.w.err,
   buffer |-> IF raw.w.err = "" THEN raw.w.buf ELSE <<>>,
   totalSize |-> totalSize, metaLength |-> metaLength,
   metaEndOffset |-> wMeta.off, offset |-> raw.w.off, elements |-> raw.x, kept |-> kept]

\* getBuffer, 'write non meta': with the transfer syntax of the data.
getBufferRaw(split, isImplicit, isBigEndian, totalSize, metaLength, meta, wMeta) ==
  getBufferResult(totalSize, metaLength, wMeta,
                  WriteElements(wMeta, meta.x, split.rawElements, 1, isImplicit,
                                ~isBigEndian),
                  split.metaElements \o split.rawElements)

\* getBuffer, the ImplementationClassUID and ImplementationVersionName
\* written after the meta elements, Explicit VR Little Endian.
getBufferMade(split, isImplicit, isBigEndian, totalSize, metaLength, meta) ==
  getBufferRaw(split, isImplicit, isBigEndian, totalSize, metaLength, meta,
               writeDataElement(writeDataElement(meta.w, icUID, FALSE, TRUE).w,
                                ivn, FALSE, TRUE).w)

\* getBuffer, the buffer of totalSize bytes, 'DICM' after the preamble,
\* the FileMetaInformationGroupLength and the meta elements.
getBufferMeta(split, isImplicit, isBigEndian, totalSize, metaLength) ==
  getBufferMade(split, isImplicit, isBigEndian, totalSize, metaLength,
                WriteElements(
                  writeDataElement(writeString(Written(Zeros(totalSize), PreambleSize), DICM),
                                   fmigl(metaLength), FALSE, TRUE).w,
                  split.elements, split.metaElements, 1, FALSE, TRUE))

\* getBuffer, the sizes of the three elements added to the locals.
getBufferSizes(split, isImplicit, isBigEndian, metaLength) ==
  getBufferMeta(split, isImplicit, isBigEndian,
                split.totalSize + MadeSize(icUID, isImplicit) + MadeSize(ivn, isImplicit)
                + MadeSize(fmigl(metaLength), isImplicit),
                metaLength)
getBufferSplit(split, isImplicit, isBigEndian) ==
  IF split.err # "" THEN NoBuffer(split.err, split.elements)
  ELSE getBufferSizes(split, isImplicit, isBigEndian,
                      split.metaLength + MadeSize(icUID, isImplicit)
                      + MadeSize(ivn, isImplicit))

\* getBuffer, the transfer syntax read: the loop on the keys.
getBufferOf(rules, dicomElementsToWrite, isImplicit, isBigEndian) ==
  getBufferSplit(SplitElements(rules, isImplicit, 1,
                               [err |-> "", elements |-> dicomElementsToWrite,
                                totalSize |-> PreambleSize + 4, metaLength |-> 0,
                                metaElements |-> <<>>, rawElements |-> <<>>]),
                 isImplicit, isBigEndian)
getBufferSyntax(rules, dicomElementsToWrite, writeSyntax) ==
  getBufferOf(rules, dicomElementsToWrite, isImplicitTransferSyntax(writeSyntax),
              isBigEndianTransferSyntax(writeSyntax))

\* DicomWriter.getBuffer; a map without TransferSyntaxUID, or whose
\* TransferSyntaxUID has no string value, throws TypeError.
getBuffer(rules, dicomElementsToWrite) ==
  IF \/ ~Has(dicomElementsToWrite, x00020010)
     \/ Get(dicomElementsToWrite, x00020010).value.t = "null"
     \/ ~HasString0(Get(dicomElementsToWrite, x00020010).value)
  THEN NoBuffer("TypeError", dicomElementsToWrite)
  ELSE getBufferSyntax(rules, dicomElementsToWrite,
                       cleanString(Get(dicomElementsToWrite, x00020010).value.cells[1].s))

(***************************************************************************)
(* The writer at work, and the parse of what it wrote.                     *)
(***************************************************************************)
\* The rules a writer is given: the default ones, the example
\* anonymisation rules, and rules that clear FileMetaInformationVersion
\* and PatientName.
clearRules ==
  Rules([k \in {x00020001, x00100010} |-> Rule("clear", <<>>)], NoRules, Rule("copy", <<>>))
\* Rules that name an element by its key, by its keyword and by its group
\* at once: PatientName, InstanceNumber and Rows are named, the groups
\* 0002, 0010, 0020 and 0028 too, the others fall to the default.
priorityRules ==
  Rules([k \in {x00100010} |-> Rule("copy", <<>>)],
        [n \in {"PatientName", "Patient", "InstanceNumber", "Relationship", "Rows",
                "Image Presentation", "Meta Element"} |->
           IF n \in {"InstanceNumber", "Image Presentation", "Meta Element"}
           THEN Rule("copy", <<>>) ELSE Rule("remove", <<>>)],
        Rule("remove", <<>>))
RuleNames == {"default", "anonymisation", "clear", "priority"}
RulesNamed(name) ==
  CASE name = "default" -> defaultRules
    [] name = "anonymisation" -> anonymisationRules
    [] name = "clear" -> clearRules
    [] name = "priority" -> priorityRules

\* writer.rules = ..; writer.getBuffer(parser.getRawDicomElements()) once
\* parse returned.
GetBuffer ==
  /\ run = "first"
  /\ pc = "done"
  /\ \E name \in RuleNames :
       \E b \in {getBuffer(RulesNamed(name), dicomElements)} :
          /\ written' = [rules |-> name, err |-> b.err, buffer |-> b.buffer,
                         totalSize |-> b.totalSize, metaLength |-> b.metaLength,
                         metaEndOffset |-> b.metaEndOffset, offset |-> b.offset,
                         kept |-> b.kept]
          /\ dicomElements' = b.elements
  /\ run' = "written"
  /\ first' = [error |-> error, elements |-> dicomElements, buffer |-> buffer]
  /\ UNCHANGED <<factoryVars, imageVars, pipelineVars, input, original, buffer, native, rewritten, pc, error, offset, metaEnd,
                 syntax, implicit, dataReader, header, dataReads>>

\* writer.getBuffer of the same elements once more, the rules unchanged.
GetBufferAgain ==
  /\ run = "written"
  /\ written.err = ""
  /\ \E b \in {getBuffer(RulesNamed(written.rules), dicomElements)} :
       /\ rewritten' = [rules |-> written.rules, err |-> b.err, buffer |-> b.buffer,
                        totalSize |-> b.totalSize, metaLength |-> b.metaLength,
                        metaEndOffset |-> b.metaEndOffset, offset |-> b.offset,
                        kept |-> b.kept]
       /\ dicomElements' = b.elements
  /\ run' = "rewritten"
  /\ UNCHANGED <<factoryVars, imageVars, pipelineVars, input, original, buffer, native, first, written, pc, error, offset,
                 metaEnd, syntax, implicit, dataReader, header, dataReads>>

\* new DicomParser().parse(buffer) of the buffer getBuffer returned.
ParseWritten ==
  /\ run = "written"
  /\ written.err = ""
  /\ run' = "reparse"
  /\ original' = written.buffer
  /\ buffer' = written.buffer
  /\ pc' = "magic"
  /\ error' = ""
  /\ dicomElements' = <<>>
  /\ offset' = 0
  /\ metaEnd' = 0
  /\ syntax' = <<>>
  /\ implicit' = FALSE
  /\ dataReader' = [le |-> TRUE, label |-> "iso-8859-1"]
  /\ header' = NoAux
  /\ dataReads' = 0
  /\ UNCHANGED <<factoryVars, imageVars, pipelineVars, input, native, first, written, rewritten>>

Parse ==
  \/ ParseMagic
  \/ ParseGroupLength
  \/ ParseMetaElement
  \/ ParseCheckSyntax
  \/ ParseDataElement
  \/ ParsePixelBuffer

Next ==
  \/ Parse
  \/ ParseAgain
  \/ GetBuffer
  \/ GetBufferAgain
  \/ ParseWritten

Spec == Init /\ [][Next]_vars

(***************************************************************************)
(* The properties.                                                         *)
(***************************************************************************)
\* What the input files are: conforming when nothing was damaged, of a
\* supported transfer syntax when it is one of the nine.
Conforming == input.damage = "none"
Supported == input.syntax \in SupportedSyntaxes

\* A file without its preamble and without the File Meta elements
\* (0002,0000), (0002,0012) and (0002,0013): the elements of group 0002
\* are walked in Explicit VR Little Endian from offset o on.
RECURSIVE StripMeta(_, _)
StripMeta(B, o) ==
  IF o + 8 > Len(B) \/ getUint16(B, o, TRUE) # 2 THEN SubSeq(B, o + 1, Len(B))
  ELSE LET long == SubSeq(B, o + 5, o + 6) \in StandardLongVRs
           len == IF ~long THEN getUint16(B, o + 6, TRUE)
                  ELSE IF o + 12 > Len(B) THEN -1
                  ELSE getUint32(B, o + 8, TRUE)
           size == (IF long THEN 12 ELSE 8) + len
       IN IF len < 0 \/ o + size > Len(B) THEN SubSeq(B, o + 1, Len(B))
          ELSE (IF getUint16(B, o + 2, TRUE) \in {0, 18, 19} THEN <<>>
                ELSE SubSeq(B, o + 1, o + size))
               \o StripMeta(B, o + size)
Essential(B) == StripMeta(B, PreambleSize + 4)

\* C1: for every supported transfer syntax and every conforming buffer B,
\* getBuffer with the default rules on the elements parse(B) gave returns a
\* buffer equal to B byte for byte, but for the preamble and the File Meta
\* elements (0002,0000), (0002,0012) and (0002,0013).
C1_WriteOfParseIsIdentity ==
  (run = "written" /\ written.rules = "default" /\ Conforming /\ Supported)
    => (written.err = "" /\ Essential(written.buffer) = Essential(InputBuffer(input)))

\* An element map as (tag, vr, value) of its elements, the offsets and the
\* vl left out, but for the File Meta elements the writer makes itself.
RECURSIVE Structure(_)
StructureOfCell(c) ==
  IF c.k = "object" THEN [c EXCEPT !.m = Structure(c.m)] ELSE c
StructureOfValue(v) ==
  IF v.t = "Array" THEN Array([i \in 1..Len(v.cells) |-> StructureOfCell(v.cells[i])]) ELSE v
Structure(m) ==
  [i \in 1..Len(m) |-> [tag |-> m[i].tag, vr |-> m[i].vr, value |-> StructureOfValue(m[i].value)]]
WriterMade(e) == e.tag.name \in {x00020000, x00020012, x00020013}
NotWriterMade(e) == ~WriterMade(e)

\* C2: parsing the buffer getBuffer returned for an element map E (the
\* default rules) gives a map equal to E over the (tag, vr, value) of every
\* element: none added, none lost, none changed.  The three File Meta
\* elements the writer makes itself are left out of the comparison.
C2_ParseOfWriteIsIdentity ==
  (run = "reparse" /\ written.rules = "default" /\ pc \in {"done", "failed"})
    => /\ pc = "done"
       /\ Structure(SelectSeq(dicomElements, NotWriterMade))
            = Structure(SelectSeq(first.elements, NotWriterMade))

\* The buffer under parse holds a magic word, and it is not 'DICM'.
WrongMagic ==
  InRange(original, PreambleSize, 4)
  /\ SubSeq(original, PreambleSize + 1, PreambleSize + 4) # DICM

\* C3: parse throws NotDicom when the bytes 128 to 132 are not 'DICM', and
\* when the File Meta group was read to its end and gave no (0002,0010);
\* both before any element of the Data Set is read, and nothing is read
\* from then on.
C3_NotDicom ==
  [][/\ (pc = "magic" /\ WrongMagic)
          => (pc' = "failed" /\ error' = "NotDicom" /\ dataReads' = 0)
     /\ (pc = "meta" /\ ~(offset < metaEnd) /\ ~Has(dicomElements, x00020010))
          => (pc' = "failed" /\ error' = "NotDicom" /\ dataReads' = 0)
     /\ (pc = "failed" /\ error = "NotDicom")
          => (dataReads = 0 /\ (pc' = "failed" => UNCHANGED parserVars))]_vars
\* A parse that threw NotDicom for a wrong magic word, another for a File
\* Meta group without (0002,0010).
C3_Witness ==
  /\ pc = "failed" /\ error = "NotDicom" /\ WrongMagic /\ dataReads = 0
  /\ input.damage = "magic"
C3_Witness_NoSyntax ==
  /\ pc = "failed" /\ error = "NotDicom" /\ ~WrongMagic /\ dataReads = 0
  /\ input.damage = "nosyntax" /\ ~Has(dicomElements, x00020010)

\* C4: parse accepts the transfer syntax it read if and only if it is one
\* of the nine of the supported set, and throws UnsupportedSyntax for every
\* other one.
C4_SupportedSyntaxes ==
  (syntax # <<>>)
    => /\ (syntax \in SupportedSyntaxes) => (error # "UnsupportedSyntax")
       /\ (syntax \notin SupportedSyntaxes) => (pc = "failed" /\ error = "UnsupportedSyntax")

\* C5: once parse threw, the parser holds no element: getRawDicomElements
\* gives an empty map.
C5_AllOrNothing == (pc = "failed") => (dicomElements = <<>>)

\* C6: on a little endian platform, parse leaves every byte of its buffer as
\* it was, and a second parse of the buffer ends as the first one did, with
\* equal elements.
C6_BufferOnlyRead ==
  native =>
    /\ buffer = original
    /\ (run = "again" /\ pc \in {"done", "failed"})
         => (error = first.error /\ dicomElements = first.elements)

\* C7: in Explicit VR the reader takes the long header of 12 bytes (two
\* reserved bytes and a 32-bit VL) for an element with a VR exactly when
\* the VR is OB, OW, OF, OD, SQ, UT or UN, and the short header of 8 bytes
\* for every other VR.
C7_ExplicitHeader ==
  (header # NoAux /\ ~header.implicit /\ isTagWithVR(header.tag.group, header.tag.element))
    => /\ (header.vr \in StandardLongVRs)
            => (header.is32bitVLVR /\ header.startOffset - header.offset = 12)
       /\ (header.vr \notin StandardLongVRs)
            => (~header.is32bitVLVR /\ header.startOffset - header.offset = 8)

\* The bytes of the value of a File Meta element as Explicit VR Little
\* Endian holds them: the numbers of a typed array, the strings joined.
ValueBytes(v) ==
  IF v.t = "Array" THEN Join([i \in 1..Len(v.cells) |-> v.cells[i].s], 92)
  ELSE Flatten([i \in 1..Len(v.data) |-> WordBytes(v.data[i], BytesPerElement(v.t), TRUE)])
\* The File Meta elements of an input file, as (tag name, vr, value bytes).
MetaEntry(name, vr, bytes) == [name |-> name, vr |-> vr, bytes |-> bytes]
ExpectedMeta(in) ==
  <<MetaEntry(x00020000, VR_UL, Bytes32(Len(MetaRest(in)), TRUE)),
    MetaEntry(x00020001, VR_OB, <<0, 1>>),
    MetaEntry(x00020010, VR_UI, Padded(in.syntax, 0))>>
  \o (IF in.implementation
      THEN <<MetaEntry(x00020012, VR_UI, <<49, 46, 50, 46, 51, 0>>),
             MetaEntry(x00020013, VR_SH, <<86, 49>>)>>
      ELSE <<>>)
IsMeta(e) == e.tag.group = Hex4(2)
\* The File Meta group getBuffer is to write for an input file when the
\* rules copy the group: Explicit VR Little Endian, whatever the syntax.
ExpectedWrittenMeta(in) ==
  RefMeta(RefMetaVersion \o RefMetaSyntax(in.syntax) \o
          RefDefined(2, 18, VR_UI, icUIDValue, FALSE, TRUE) \o
          RefDefined(2, 19, VR_SH, ivnValue, FALSE, TRUE))

\* C8: the elements of the File Meta group are read and written in
\* Explicit VR Little Endian whatever the transfer syntax.  Read: the
\* elements of group 0002 parsed so far from a conforming file are the ones
\* the file holds, tag, vr and value, each read with the explicit header,
\* and the group is read to its end without an error.  Written: when the
\* rules copy the group, the bytes from 132 to the first element of the
\* Data Set are the group in Explicit VR Little Endian, and the group
\* length computed is their number after the 12 bytes of (0002,0000).
C8_MetaExplicitLittleEndian ==
  /\ (run = "first" /\ Conforming) =>
       LET meta == SelectSeq(dicomElements, IsMeta)
           expected == ExpectedMeta(input)
       IN /\ Len(meta) <= Len(expected)
          /\ \A i \in 1..Len(meta) :
               /\ meta[i].tag.name = expected[i].name
               /\ meta[i].vr = expected[i].vr
               /\ ValueBytes(meta[i].value) = expected[i].bytes
          /\ (dataReads = 0 /\ header # NoAux) => ~header.implicit
          /\ (pc \in {"data", "done"} \/ dataReads > 0) => Len(meta) = Len(expected)
          /\ (pc = "failed") => (dataReads > 0 \/ error = "UnsupportedSyntax")
  /\ (run = "written" /\ Conforming /\ written.rules # "clear" /\ written.err = "") =>
       /\ written.metaEndOffset <= Len(written.buffer)
       /\ SubSeq(written.buffer, PreambleSize + 5, written.metaEndOffset)
            = ExpectedWrittenMeta(input)
       /\ written.metaLength = written.metaEndOffset - (PreambleSize + 4 + 12)
\* A file in Explicit VR Big Endian, and one in Implicit VR, parsed and
\* written with the default rules.
C8_Witness ==
  /\ run = "written" /\ written.err = "" /\ written.rules = "default"
  /\ input.syntax = UidExplicitBE /\ input.body = "image" /\ Conforming
  /\ Len(SelectSeq(first.elements, IsMeta)) = Len(ExpectedMeta(input))
C8_Witness_Implicit ==
  /\ run = "written" /\ written.err = "" /\ written.rules = "default"
  /\ input.syntax = UidImplicitLE /\ input.body = "image" /\ Conforming

\* C9: in a buffer getBuffer returned, the value of (0002,0000) is the
\* number of bytes of the File Meta elements written after it, those it
\* copied and the two it made: the Data Set starts at 132 + 12 + the value.
C9_GroupLength ==
  (run = "written" /\ written.err = "")
    => getUint32(written.buffer, PreambleSize + 4 + 8, TRUE)
         = written.metaEndOffset - (PreambleSize + 4 + 12)

\* C10: getBuffer (the default rules) returns a buffer of the size it
\* computed, and the offset after the last element written is that size:
\* no byte is left unwritten, no byte is written past the end.
C10_BufferSize ==
  (run = "written" /\ written.rules = "default")
    => /\ written.err = ""
       /\ Len(written.buffer) = written.totalSize
       /\ written.offset = written.totalSize

\* The items of a value, and whether an element map, or an item of one of
\* its sequences, holds a delimitation item under its tag name.
ItemsOf(v) == IF v.t = "Array" THEN SelectSeq(v.cells, LAMBDA c : c.k = "object") ELSE <<>>
RECURSIVE StoresDelimiter(_)
StoresDelimiter(m) ==
  \E i \in 1..Len(m) :
    \/ m[i].tag.name \in {xFFFEE00D, xFFFEE0DD}
    \/ \E j \in 1..Len(ItemsOf(m[i].value)) : StoresDelimiter(ItemsOf(m[i].value)[j].m)

\* The items of undefined length of an element map, those of the items of
\* its sequences included: the item elements whose vl is 'u/l'.
RECURSIVE UndefinedItems(_)
UndefinedItems(m) ==
  SumSeq([i \in 1..Len(m) |->
            (IF m[i].tag.name = xFFFEE000 /\ m[i].vl = UL THEN 1 ELSE 0)
            + SumSeq([j \in 1..Len(ItemsOf(m[i].value)) |->
                        UndefinedItems(ItemsOf(m[i].value)[j].m)])])
\* Its sequences and pixel data of undefined length.
RECURSIVE UndefinedSequences(_)
UndefinedSequences(m) ==
  SumSeq([i \in 1..Len(m) |->
            (IF isImplicitLengthSequence(m[i]) \/ isImplicitLengthPixels(m[i]) THEN 1 ELSE 0)
            + SumSeq([j \in 1..Len(ItemsOf(m[i].value)) |->
                        UndefinedSequences(ItemsOf(m[i].value)[j].m)])])
\* The items a buffer holds with a VL of 0xffffffff: the tag (FFFE,E000).
ItemHeader(le) == Bytes16(65534, le) \o Bytes16(57344, le) \o UndefinedLength

\* The Item Delimitation Item and the Sequence Delimitation Item on the
\* wire, VL = 0, and the places of a pattern in a buffer.
ItemDelimitation(le) == Bytes16(65534, le) \o Bytes16(57357, le) \o Zeros(4)
SequenceDelimitation(le) == Bytes16(65534, le) \o Bytes16(57565, le) \o Zeros(4)
Occurrences(buf, pattern) ==
  Cardinality({i \in 1..(Len(buf) - Len(pattern) + 1) :
                 SubSeq(buf, i, i + Len(pattern) - 1) = pattern})
\* The Data Set a getBuffer wrote, and the delimitation items a write w of
\* the elements m has to hold: one for each item, and one for each
\* sequence or pixel data, of undefined length.
WrittenDataSet(w) == SubSeq(w.buffer, w.metaEndOffset + 1, w.offset)
Rematerialized(w, m, le) ==
  /\ Occurrences(WrittenDataSet(w), ItemDelimitation(le)) = UndefinedItems(m)
  /\ Occurrences(WrittenDataSet(w), ItemHeader(le)) = UndefinedItems(m)
  /\ Occurrences(WrittenDataSet(w), SequenceDelimitation(le)) = UndefinedSequences(m)
  /\ (Has(m, x7FE00010) /\ isImplicitLengthPixels(Get(m, x7FE00010)))
       => SubSeq(w.buffer, w.offset - 7, w.offset) = SequenceDelimitation(le)

\* C11: the maps parse gives for a conforming file store no delimitation
\* item, and every getBuffer of such a map (the default rules) writes one
\* Item Delimitation Item per item of undefined length and one Sequence
\* Delimitation Item per sequence or pixel data of undefined length, none
\* for those of explicit length.
C11_Delimiters ==
  /\ (Conforming /\ run \in {"first", "again"}) => ~StoresDelimiter(dicomElements)
  /\ (Conforming /\ run = "written" /\ written.rules = "default" /\ written.err = "")
       => Rematerialized(written, first.elements, input.syntax # UidExplicitBE)
  /\ (Conforming /\ run = "rewritten" /\ rewritten.rules = "default" /\ rewritten.err = "")
       => Rematerialized(rewritten, first.elements, input.syntax # UidExplicitBE)
\* The same of the first getBuffer alone.
C11_FirstWrite ==
  /\ (Conforming /\ run \in {"first", "again"}) => ~StoresDelimiter(dicomElements)
  /\ (Conforming /\ run = "written" /\ written.rules = "default" /\ written.err = "")
       => Rematerialized(written, first.elements, input.syntax # UidExplicitBE)

\* The images of the input files with native pixel data: Rows, Columns,
\* SamplesPerPixel, NumberOfFrames (1 when the file has none), the bytes of
\* a sample and the samples of the Pixel Data, in file order.
Image(rows, columns, samples, frames, bytes, data) ==
  [rows |-> rows, columns |-> columns, samples |-> samples, frames |-> frames,
   bytes |-> bytes, data |-> data]
NativeBodies == {"image", "frames", "colour"}
InputImage(body) ==
  CASE body = "image" -> Image(1, 2, 1, 1, 2, <<1, 258>>)
    [] body = "frames" -> Image(1, 1, 1, 2, 1, <<7, 9>>)
    [] body = "colour" -> Image(1, 2, 3, 2, 1, <<1, 2, 3, 4, 5, 6, 7, 8, 9, 10, 11, 12>>)

\* The frames of a pixel data value: each a typed array.
IsFrames(v) == v.t = "Array" /\ \A g \in 1..Len(v.cells) : v.cells[g].k = "typed"
FrameData(v) == [g \in 1..Len(v.cells) |-> v.cells[g].a.data]

\* C12: once parse returned for a conforming file with Pixel Data of
\* explicit length, the value of (7FE0,0010) is a list of NumberOfFrames
\* frames (1 without (0028,0008)), each of Rows x Columns x SamplesPerPixel
\* samples, frame g holding the samples from (g - 1) x that size on, so
\* that the frames together hold Rows x Columns x SamplesPerPixel x
\* NumberOfFrames samples of the bytes of a sample each.
C12_Frames ==
  (Conforming /\ input.body \in NativeBodies /\ run = "first" /\ pc \in {"done", "failed"})
    => LET im == InputImage(input.body)
           size == im.rows * im.columns * im.samples
           value == Get(dicomElements, x7FE00010).value
       IN /\ pc = "done"
          /\ Has(dicomElements, x7FE00010)
          /\ Get(dicomElements, x7FE00010).vl # UL
          /\ IsFrames(value)
          /\ Len(value.cells) = im.frames
          /\ \A g \in 1..Len(value.cells) :
               /\ Len(value.cells[g].a.data) = size
               /\ BytesPerElement(value.cells[g].a.t) = im.bytes
               /\ value.cells[g].a.data = SubSeq(im.data, (g - 1) * size + 1, g * size)
          /\ SumSeq([g \in 1..Len(value.cells) |->
                       Len(value.cells[g].a.data) * BytesPerElement(value.cells[g].a.t)])
               = im.rows * im.columns * im.samples * im.frames * im.bytes
\* A parse that returned two frames of six samples each.
C12_Witness ==
  /\ run = "first" /\ pc = "done" /\ Conforming /\ input.body = "colour"
  /\ Has(dicomElements, x7FE00010)
  /\ IsFrames(Get(dicomElements, x7FE00010).value)
  /\ FrameData(Get(dicomElements, x7FE00010).value)
       = <<(<<1, 2, 3, 4, 5, 6>>), (<<7, 8, 9, 10, 11, 12>>)>>

\* The encapsulated Pixel Data of the input files: NumberOfFrames (1 when
\* the file has none) and the fragments, the basic offset table apart.
EncapsulatedBodies == {"encapsulated", "fragments", "grouped", "uneven"}
InputFrames(body) == IF body \in {"grouped", "uneven"} THEN 2 ELSE 1
InputFragments(body) ==
  CASE body = "encapsulated" -> <<(<<255, 216, 255, 217>>)>>
    [] body = "fragments" -> <<(<<255, 216>>), (<<255, 217>>)>>
    [] body = "grouped" -> <<(<<255, 216>>), (<<255, 217>>), (<<255, 218>>), (<<255, 219>>)>>
    [] body = "uneven" -> <<(<<255, 216>>), (<<255, 217>>), (<<255, 218>>)>>
\* n frames of the fragments, each of Len(fragments) / n consecutive ones.
GroupedFragments(fragments, n) ==
  [f \in 1..n |->
     Flatten([j \in 1..(Len(fragments) \div n) |->
                fragments[(f - 1) * (Len(fragments) \div n) + j]])]

\* C13: once parse returned for a conforming file with encapsulated Pixel
\* Data, the value of (7FE0,0010) holds NumberOfFrames frames of
\* fragments / NumberOfFrames consecutive fragments each when the number
\* of fragments is a multiple of NumberOfFrames, and the fragments as they
\* are, one per frame, when it is not; the basic offset table is none of
\* them.
C13_Fragments ==
  (Conforming /\ Supported /\ input.body \in EncapsulatedBodies /\ run = "first"
     /\ pc \in {"done", "failed"})
    => LET fragments == InputFragments(input.body)
           n == InputFrames(input.body)
           value == Get(dicomElements, x7FE00010).value
       IN /\ pc = "done"
          /\ Has(dicomElements, x7FE00010)
          /\ IsFrames(value)
          /\ FrameData(value) = IF Len(fragments) % n = 0
                                THEN GroupedFragments(fragments, n)
                                ELSE fragments
\* The same of the files whose fragments are a multiple of NumberOfFrames.
C13_Multiple ==
  (input.body \in EncapsulatedBodies
     => Len(InputFragments(input.body)) % InputFrames(input.body) = 0)
    => C13_Fragments

\* The rules that name a tag, by its key or by its keyword; the rule of its
\* group name; and the rules that may be applied to an element by the
\* priority: one that names the tag, else the one of the group, else the
\* default.
TagRules(rules, e) ==
  {rules.key[k] : k \in {e.tag.name} \cap DOMAIN rules.key}
  \cup {rules.name[dictionary[k][2]] :
          k \in {x \in {e.tag.name} \cap DictionaryKeys : dictionary[x][2] \in DOMAIN rules.name}}
GroupRules(rules, e) == {rules.name[n] : n \in {TagGroups(e.tag.group)} \cap DOMAIN rules.name}
ApplicableRules(rules, e) ==
  IF TagRules(rules, e) # {} THEN TagRules(rules, e)
  ELSE IF GroupRules(rules, e) # {} THEN GroupRules(rules, e)
  ELSE {rules.default}

\* What a rule leaves of the element under key i of the map: a removed
\* element is not written, a copied one is (getBuffer makes (0002,0000),
\* (0002,0012) and (0002,0013) itself) with its vl and offsets as they
\* were, a cleared one and a replaced one have the vl and offsets the
\* action sets.
InSeq(x, s) == \E j \in 1..Len(s) : s[j] = x
RuleEffect(rule, i, before, after, kept) ==
  CASE rule.action = "remove" -> ~InSeq(i, kept) /\ after = before
    [] rule.action = "copy" ->
         /\ InSeq(i, kept) \/ WriterMade(before)
         /\ after.vl = before.vl
         /\ after.startOffset = before.startOffset /\ after.endOffset = before.endOffset
    [] rule.action = "clear" ->
         /\ InSeq(i, kept) \/ WriterMade(before)
         /\ after.vl = 0 /\ after.endOffset = after.startOffset
    [] rule.action = "replace" ->
         /\ InSeq(i, kept) \/ WriterMade(before)
         /\ after.vl = Len(rule.value)
         /\ after.endOffset = after.startOffset + Len(rule.value)

\* C14: the rule getBuffer applies to an element of the map is one that
\* names its tag, by key or by keyword, when there is one; else the rule
\* of its group name when there is one; else the default rule.
C14_RulePriority ==
  (run = "written" /\ written.err = "")
    => \A i \in 1..Len(first.elements) :
         \E rule \in ApplicableRules(RulesNamed(written.rules), first.elements[i]) :
           RuleEffect(rule, i, first.elements[i], dicomElements[i], written.kept)
\* A getBuffer where the rule of a key won over those of the keyword and of
\* the group (PatientName is written), and the rule of a keyword over the
\* one of the group (InstanceNumber is written).
C14_Witness ==
  /\ run = "written" /\ written.err = "" /\ written.rules = "priority"
  /\ input.body = "patient"
  /\ \A i \in 1..Len(first.elements) :
       first.elements[i].tag.name \in {x00100010, x00200013} => InSeq(i, written.kept)
\* A getBuffer where the rule of a keyword won over the one of the group
\* (Rows is removed, Columns written) and the default rule was applied to
\* an element no rule names (PixelData is removed).
C14_Witness_Default ==
  /\ run = "written" /\ written.err = "" /\ written.rules = "priority"
  /\ input.body = "image"
  /\ \A i \in 1..Len(first.elements) :
       /\ first.elements[i].tag.name \in {x00280010, x7FE00010} => ~InSeq(i, written.kept)
       /\ first.elements[i].tag.name = x00280011 => InSeq(i, written.kept)

\* The number of bytes writeDataElementValue emits for the value of an
\* element (-1 when it throws), counted in a buffer that holds them.
EmittedValueBytes(e) ==
  LET w == writeDataElementValue(Written(Zeros(32), 0), e.vr, e.value, FALSE, TRUE).w
  IN IF w.err = "" THEN w.off ELSE -1
\* An element has the string str as its whole value, vl its length, and
\* the writer emits as many value bytes.
HoldsOnly(e, str) ==
  /\ e.value = Array(<<StrCell(str)>>)
  /\ e.vl = Len(str)
  /\ EmittedValueBytes(e) = e.vl

\* C15: after getBuffer, an element the rules clear has the empty string
\* as its whole value and vl 0, an element they replace by v has v as its
\* single value and vl len(v), whatever its value was before; and the
\* value bytes the writer emits for it are as many as its vl.
C15_ClearReplace ==
  (run = "written")
    => \A i \in 1..Len(first.elements) :
         LET rule == RuleOf(RulesNamed(written.rules), first.elements[i])
         IN /\ (rule.action = "clear" /\ dicomElements[i] # first.elements[i])
                 => HoldsOnly(dicomElements[i], <<>>)
            /\ (rule.action = "replace" /\ dicomElements[i] # first.elements[i])
                 => HoldsOnly(dicomElements[i], rule.value)

\* C16: with the default rules (copy every element), getBuffer leaves the
\* map it was given as it was, the elements of the items of its sequences
\* included, and a second getBuffer of the map gives the bytes of the
\* first.
C16_CopyIsIdentity ==
  /\ (run = "written" /\ written.rules = "default" /\ Conforming)
       => dicomElements = first.elements
  /\ (run = "rewritten" /\ rewritten.rules = "default" /\ Conforming)
       => (rewritten.err = "" /\ rewritten.buffer = written.buffer)

(***************************************************************************)
(* DicomBufferToView: convert and abort, the pixel decoder, the ThreadPool *)
(* and its WorkerThreads.  The operators take the state of the pipeline S  *)
(* and give the state the call leaves; S.err is the error a call threw.    *)
(***************************************************************************)
Pipeline ==
  [conversions |-> conversions, pixelDecoder |-> pixelDecoder, pool |-> pool,
   threads |-> threads, events |-> events, aborts |-> aborts, err |-> ""]

\* An event or callback delivered: its type, the conversion and frame it is
\* about (0 where the handler cannot tell), the abort calls that had
\* happened when its task was submitted and when it was delivered.
Emit(S, type, conv, frame, submitted) ==
  [S EXCEPT !.events =
     Append(@, [type |-> type, conv |-> conv, frame |-> frame,
                submitted |-> submitted, aborts |-> S.aborts])]

\* What the pool did, kept in pool.calls in order: a task passed to
\* addWorkerTask ("add"), a task a thread was made to run ("run"), an
\* onpoolworkend call ("poolworkend").
Call(S, op, workerTask) ==
  [S EXCEPT !.pool.calls =
     Append(@, [op |-> op, conv |-> workerTask.conv, frame |-> workerTask.frame])]

\* self.onloadend() called by a handler: function () { self.onloadend(); }
\* or the default handler that does nothing.
Fire(S, handler) ==
  IF handler = "onloadend" THEN Emit(S, "loadend", 0, 0, S.aborts) ELSE S

\* The conversion convert starts: the pixelBuffer of the parsed elements,
\* compressed frames when the syntax needs decompression.
NewConversion(nFrames, needDecompression) ==
  [nFrames |-> nFrames, needDecompression |-> needDecompression,
   pixelBuffer |->
     [f \in 1..nFrames |-> IF needDecompression THEN "compressed" ELSE "native"],
   countDecodedFrames |-> 0,
   image |-> [created |-> FALSE, pixelBuffer |-> <<>>],
   creates |-> 0, thrown |-> ""]

\* onDecodedFirstFrame: imageFactory.create(elements, pixelBuffer), the view,
\* then self.onload.
onDecodedFirstFrame(S, c) ==
  Emit([S EXCEPT !.conversions[c].image =
                   [created |-> TRUE, pixelBuffer |-> S.conversions[c].pixelBuffer],
                 !.conversions[c].creates = @ + 1],
       "load", c, 0, S.aborts)

\* pixelBuffer[frame] = event.data[0]
KeepFrame(pixelBuffer, frame) == pixelBuffer
StoreFrame(pixelBuffer, frame) == [pixelBuffer EXCEPT ![frame + 1] = "decoded"]

\* onDecodedFrame(frame)(event): count, progress, store, image for frame 0.
onDecodedFrame(S, c, frame, submitted) ==
  LET counted == [S EXCEPT !.conversions[c].countDecodedFrames = @ + 1]
      progressed == Emit(counted, "progress", c, frame, submitted)
      stored == [progressed EXCEPT
                   !.conversions[c].pixelBuffer = StoreFrame(@, frame)]
  IN  IF frame = 0 THEN onDecodedFirstFrame(stored, c) ELSE stored

\* WorkerThread.run: runningTask = workerTask assigns to a const, a
\* TypeError where the build keeps const read-only; else the worker is
\* created and posted its start message.
WorkerThreadRun(S, t, workerTask) ==
  IF readOnlyConst
    THEN [S EXCEPT !.err = "TypeError"]
    ELSE Call([S EXCEPT !.threads[t] =
                 [runningTask |-> workerTask, worker |-> "running"]],
              "run", workerTask)

\* ThreadPool.init: poolSize new worker threads pushed on freeThreads.
init(S) ==
  [S EXCEPT !.threads = @ \o [k \in 1..PoolSize |-> NewThread],
            !.pool.freeThreads =
               @ \o [k \in 1..PoolSize |-> Len(S.threads) + k]]

\* ThreadPool.addWorkerTask
addWorkerTaskTo(S, workerTask) ==
  IF Len(S.pool.freeThreads) > 0
    THEN LET ran == WorkerThreadRun([S EXCEPT !.pool.freeThreads = Tail(@)],
                                    Head(S.pool.freeThreads), workerTask)
         IN  IF ran.err # "" THEN ran
             ELSE [ran EXCEPT !.pool.runningThreads =
                                 Append(@, Head(S.pool.freeThreads))]
    ELSE [S EXCEPT !.pool.taskQueue = Append(@, workerTask)]
addWorkerTask(S, workerTask) == addWorkerTaskTo(Call(S, "add", workerTask), workerTask)

\* The loop of freeWorkerThread that removes the thread from the running
\* list: splice(i, 1) and then ++i.
RECURSIVE SpliceThread(_, _, _)
SpliceThread(running, i, t) ==
  IF i > Len(running) THEN running
  ELSE IF running[i] = t
    THEN SpliceThread(SubSeq(running, 1, i - 1) \o SubSeq(running, i + 1, Len(running)),
                      i + 1, t)
    ELSE SpliceThread(running, i + 1, t)

\* ThreadPool.freeWorkerThread: onworkerend, then the waiting task or the
\* free list, and onpoolworkend when the free list is poolSize long.
freeWorkerThread(S, t) ==
  LET ended == Fire(S, S.pixelDecoder.ondecoded)
  IN  IF Len(ended.pool.taskQueue) > 0
        THEN WorkerThreadRun([ended EXCEPT !.pool.taskQueue = Tail(@)],
                             t, Head(ended.pool.taskQueue))
        ELSE LET freed ==
                   [ended EXCEPT
                      !.pool.freeThreads = Append(@, t),
                      !.pool.runningThreads = SpliceThread(@, 1, t)]
             IN  IF Len(freed.pool.freeThreads) = PoolSize
                   THEN Fire(Call(freed, "poolworkend", NoTask),
                             freed.pixelDecoder.ondecodeend)
                   ELSE freed

\* WorkerThread.stop: worker.terminate(), parentPool.freeWorkerThread(this).
stop(S, t) ==
  IF S.threads[t].worker = "none"
    THEN [S EXCEPT !.err = "TypeError"]
    ELSE freeWorkerThread([S EXCEPT !.threads[t].worker = "terminated"], t)

\* WorkerThread ontaskend: runningTask.callback(event), self.stop().
ontaskend(S, t) ==
  stop(onDecodedFrame(S, S.threads[t].runningTask.conv,
                      S.threads[t].runningTask.frame,
                      S.threads[t].runningTask.aborts), t)

\* The loop of ThreadPool.abort over the running list, which the stop of
\* each thread shortens.
RECURSIVE stopRunning(_, _)
stopRunning(S, i) ==
  IF i > Len(S.pool.runningThreads) \/ S.err # "" THEN S
  ELSE stopRunning(stop(S, S.pool.runningThreads[i]), i + 1)

\* ThreadPool.abort
poolAbort(S) ==
  init([stopRunning([S EXCEPT !.pool.taskQueue = <<>>], 1)
          EXCEPT !.pool.runningThreads = <<>>])

\* new PixelBufferDecoder(algoName): the decoder and its initialised pool.
PixelBufferDecoder(S) == init([S EXCEPT !.pixelDecoder.made = TRUE])

\* pixelDecoder.decode(buffer, bitsAllocated, isSigned, callback, asynch):
\* a worker task of the pool, or the decode and its callback at once,
\* followed by ondecoded.
decode(S, c, frame, asynch) ==
  IF asynch
    THEN addWorkerTask(S, [conv |-> c, frame |-> frame, aborts |-> S.aborts])
    ELSE Fire(onDecodedFrame(S, c, frame, S.aborts), S.pixelDecoder.ondecoded)

\* for (let f = 1; f < nFrames; ++f) pixelDecoder.decode(...)
RECURSIVE decodeFrames(_, _, _, _)
decodeFrames(S, c, f, nFrames) ==
  IF f >= nFrames \/ S.err # "" THEN S
  ELSE decodeFrames(decode(S, c, f, TRUE), c, f + 1, nFrames)

\* The needDecompression branch of convert.
convertDecode(S, c, nFrames) ==
  LET made == IF S.pixelDecoder.made THEN S ELSE PixelBufferDecoder(S)
      handled ==
        [made EXCEPT
           !.pixelDecoder.ondecodeend = "onloadend",
           !.pixelDecoder.ondecoded = IF nFrames = 1 THEN "onloadend" ELSE @]
  IN  decodeFrames(decode(handled, c, 0, FALSE), c, 1, nFrames)

\* DicomBufferToView.convert, for a buffer that parses to nFrames frames.
convert(S, nFrames, needDecompression) ==
  LET c == Len(S.conversions) + 1
      parsed ==
        [S EXCEPT !.conversions =
           Append(@, NewConversion(nFrames, needDecompression))]
      done ==
        IF needDecompression
          THEN convertDecode(parsed, c, nFrames)
          ELSE Emit(onDecodedFirstFrame(
                      Emit(parsed, "progress", c, 0, S.aborts), c),
                    "loadend", c, 0, S.aborts)
  IN  [done EXCEPT !.conversions[c].thrown = done.err]

\* DicomBufferToView.abort
abort(S) == IF S.pixelDecoder.made THEN poolAbort(S) ELSE S

\* The pipeline becomes what a call left.
Becomes(S) ==
  /\ conversions' = S.conversions
  /\ pixelDecoder' = S.pixelDecoder
  /\ pool' = S.pool
  /\ threads' = S.threads
  /\ events' = S.events
  /\ aborts' = S.aborts

parseVars ==
  <<input, original, buffer, native, run, first, written, rewritten, parserVars>>

\* A convert call of the application.
Convert ==
  /\ Len(conversions) < MaxConversions
  /\ \E nFrames \in 1..MaxFrames, needDecompression \in BOOLEAN :
       \E S \in {convert(Pipeline, nFrames, needDecompression)} : Becomes(S)
  /\ UNCHANGED <<readOnlyConst, parseVars, imageVars, factoryVars>>

\* The message of the worker of thread t arrives.
WorkerMessageOf(t) ==
  /\ t \in 1..Len(threads)
  /\ threads[t].worker = "running"
  /\ \E S \in {ontaskend(Pipeline, t)} : Becomes(S)
  /\ UNCHANGED <<readOnlyConst, parseVars, imageVars, factoryVars>>
WorkerMessage == \E t \in 1..Len(threads) : WorkerMessageOf(t)

\* An abort call of the application.
Abort ==
  /\ aborts < MaxAborts
  /\ \E S \in {abort([Pipeline EXCEPT !.aborts = @ + 1])} : Becomes(S)
  /\ UNCHANGED <<readOnlyConst, parseVars, imageVars, factoryVars>>

InitConvert ==
  /\ input = Input(UidImplicitLE, "empty", FALSE, "none")
  /\ original = InputBuffer(input)
  /\ buffer = original
  /\ native = TRUE
  /\ run = "first"
  /\ first = NoParse
  /\ written = NotWritten
  /\ rewritten = NotWritten
  /\ NewParser
  /\ readOnlyConst \in BOOLEAN
  /\ NewDicomBufferToView
  /\ FirstImage
  /\ created = NotCreated

NextConvert ==
  \/ Convert
  \/ WorkerMessage
  \/ Abort

SpecConvert == InitConvert /\ [][NextConvert]_vars

\* Every started worker ends up posting its result: the message of a
\* running worker is not put off for ever.
SpecConvertFair ==
  SpecConvert /\ \A t \in 1..(PoolSize * (MaxAborts + 1)) : WF_vars(WorkerMessageOf(t))

(***************************************************************************)
(* The properties of the conversions.                                      *)
(***************************************************************************)
\* The places in events of the events of a type about conversion c.
EventsOf(type, c) ==
  {i \in 1..Len(events) : events[i].type = type /\ events[i].conv = c}
\* The places in events of the decoded callbacks of frame f of conversion c.
DecodedAt(c, f) == {i \in EventsOf("progress", c) : events[i].frame = f}

\* C17: in every conversion the image is created, and onload is called,
\* only once the decode of frame 0 is over and its result is in
\* pixelBuffer[0], whatever the order frames 1..N-1 are decoded in; with no
\* decompression the image is created from the pixel data of the parse
\* before onloadend.
C17_FirstFrameBeforeImage ==
  \A c \in 1..Len(conversions) :
    /\ conversions[c].image.created =>
         conversions[c].image.pixelBuffer[1] =
           (IF conversions[c].needDecompression THEN "decoded" ELSE "native")
    /\ \A i \in EventsOf("load", c) :
         /\ conversions[c].image.created
         /\ conversions[c].needDecompression =>
              \E j \in DecodedAt(c, 0) : j < i
    /\ ~conversions[c].needDecompression =>
         \A j \in EventsOf("loadend", c) : \E i \in EventsOf("load", c) : i < j

\* A conversion of three compressed frames whose frame 2 was decoded before
\* its frame 1, and a conversion that needed no decompression and ended.
C17_Witness ==
  /\ \E c \in 1..Len(conversions) :
       /\ conversions[c].nFrames = 3
       /\ conversions[c].image.created
       /\ \E i \in DecodedAt(c, 2) : \E j \in DecodedAt(c, 1) : i < j
  /\ \E c \in 1..Len(conversions) :
       /\ ~conversions[c].needDecompression
       /\ EventsOf("loadend", c) # {}

\* The load-end events delivered so far.
LoadEnds == {i \in 1..Len(events) : events[i].type = "loadend"}
\* The conversions every frame of which is decoded (or needed no decoding).
Complete ==
  {c \in 1..Len(conversions) :
     conversions[c].needDecompression =>
       conversions[c].countDecodedFrames = conversions[c].nFrames}
\* No worker is running and no task is waiting.
Quiescent ==
  /\ pool.taskQueue = <<>>
  /\ \A t \in 1..Len(threads) : threads[t].worker # "running"

RunningWorkers == {t \in 1..Len(threads) : threads[t].worker = "running"}
\* A step is an abort call.
IsAbort == aborts' = aborts + 1
\* The events a step delivers.
Delivered == {i \in 1..Len(events') : i > Len(events)}

\* An abort call leaves every worker that was running terminated.
AbortTerminates ==
  IsAbort => \A t \in RunningWorkers : threads'[t].worker = "terminated"
\* An abort call leaves the task queue empty and starts no worker.
AbortEmptiesQueue ==
  IsAbort => /\ pool'.taskQueue = <<>>
             /\ \A t \in 1..Len(threads') : threads'[t].worker = "running"
                                              => t \in RunningWorkers
\* An abort call delivers no progress, load or load-end event.
AbortIsSilent == IsAbort => events' = events
\* No callback of a task submitted before an abort is called after it.
NoLateCallback ==
  \A i \in Delivered :
    events'[i].type = "progress" => events'[i].submitted = events'[i].aborts

AppendResult(img, err, newSliceNb) ==
  [image |-> img, err |-> err, newSliceNb |-> newSliceNb]

\* point.getDistance and the dot product, along the normal.
Abs(n) == IF n < 0 THEN -n ELSE n

\* Geometry.getSliceIndex: the closest origin, the first of the closest ones.
RECURSIVE closestSliceIndex(_, _, _, _)
closestSliceIndex(origins, point, i, closest) ==
  IF i > Len(origins) THEN closest
  ELSE closestSliceIndex(origins, point, i + 1,
         IF Abs(point - origins[i]) < Abs(point - origins[closest])
           THEN i ELSE closest)
\* The slice index of a point taken to be the place of the closest origin.
sliceIndexOfClosest(origins, point) == closestSliceIndex(origins, point, 1, 1) - 1
\* The slice index (from 0) of a point: after the closest origin when the
\* dot product with the normal is positive, else at its place.
getSliceIndex(origins, point) ==
  LET closest == closestSliceIndex(origins, point, 1, 1)
  IN  IF point - origins[closest] > 0 THEN closest ELSE closest - 1

\* array.splice(index, 0, x)
SpliceIn(array, index, x) ==
  SubSeq(array, 1, index) \o <<x>> \o SubSeq(array, index + 1, Len(array))
\* typedArray.set(source, at)
TypedSet(target, source, at) ==
  [i \in 1..Len(target) |->
     IF i > at /\ i <= at + Len(source) THEN source[i - at] ELSE target[i]]

\* The new buffer of appendSlice: the slice of rhs put at newSliceNb.
AppendedBuffer(img, rhs, sliceSize, newSliceNb) ==
  LET newBuffer == Zeros(sliceSize * (img.numberOfSlices + 1))
      at == newSliceNb * sliceSize
  IN  IF newSliceNb = 0
        THEN TypedSet(TypedSet(newBuffer, rhs.buffer, 0), img.buffer, sliceSize)
      ELSE IF newSliceNb = img.numberOfSlices
        THEN TypedSet(TypedSet(newBuffer, img.buffer, 0), rhs.buffer,
                      img.numberOfSlices * sliceSize)
      ELSE TypedSet(TypedSet(TypedSet(newBuffer,
                                      SubSeq(img.buffer, 1, at - 1), 0),
                             rhs.buffer, at),
                    SubSeq(img.buffer, at + 1, Len(img.buffer)),
                    at + sliceSize)

\* The keys of a meta object in the order of for (const key in meta).
MetaKeys == <<"Modality", "BitsStored", "IsSigned">>
\* meta[key] !== rhs.getMeta()[key] for a key of meta
MetaDiffers(meta, rhsMeta, key) ==
  /\ key \in DOMAIN meta
  /\ (key \notin DOMAIN rhsMeta \/ meta[key] # rhsMeta[key])

\* The part of appendSlice after the checks of its input.
appendChecked(img, rhs) ==
  LET sliceSize == Components(img.photometricInterpretation) * img.columns * img.rows
      newSliceNb == getSliceIndex(img.origins, rhs.origins[1])
  IN  AppendResult(
        [img EXCEPT
           !.buffer = AppendedBuffer(img, rhs, sliceSize, newSliceNb),
           !.origins = SpliceIn(@, newSliceNb, rhs.origins[1]),
           !.numberOfSlices = @ + 1,
           !.rsis = SpliceIn(@, newSliceNb, rhs.rsis[1]),
           !.overlays = SpliceIn(@, newSliceNb, rhs.overlays[1])],
        "", newSliceNb)

\* Image.appendSlice(rhs)
appendSlice(img, rhs) ==
  IF rhs.null THEN AppendResult(img, "Cannot append null slice", 0)
  ELSE IF rhs.numberOfSlices # 1
    THEN AppendResult(img, "Cannot append more than one slice", 0)
  ELSE IF img.columns # rhs.columns
    THEN AppendResult(img, "Cannot append a slice with different number of columns", 0)
  ELSE IF img.rows # rhs.rows
    THEN AppendResult(img, "Cannot append a slice with different number of rows", 0)
  ELSE IF img.photometricInterpretation # rhs.photometricInterpretation
    THEN AppendResult(img, "Cannot append a slice with different photometric interpretation", 0)
  ELSE IF \E k \in 1..Len(MetaKeys) : MetaDiffers(img.meta, rhs.meta, MetaKeys[k])
    THEN AppendResult(img, "Cannot append a slice with different meta", 0)
  ELSE appendChecked(img, rhs)

\* An appendSlice call of the application.
AppendSlice ==
  /\ appended.count < MaxAppends
  /\ \E rhs \in Slices :
       \E r \in {appendSlice(image, rhs)} :
         /\ image' = r.image
         /\ appended' = [count |-> appended.count + 1, sets |-> appended.sets,
                         rhs |-> rhs, err |-> r.err, newSliceNb |-> r.newSliceNb]
  /\ UNCHANGED <<pipelineVars, parseVars, factoryVars>>

\* A setRescaleSlopeAndIntercept call of the application, on a slice of
\* the image.
SetRescaleSlopeAndIntercept ==
  /\ appended.sets < MaxSets
  /\ \E inRsi \in Rsis, k \in 0..(image.numberOfSlices - 1) :
       image' = setRescaleSlopeAndIntercept(image, inRsi, k)
  /\ appended' = [appended EXCEPT !.sets = @ + 1]
  /\ UNCHANGED <<pipelineVars, parseVars, factoryVars>>

InitImage ==
  /\ input = Input(UidImplicitLE, "empty", FALSE, "none")
  /\ original = InputBuffer(input)
  /\ buffer = original
  /\ native = TRUE
  /\ run = "first"
  /\ first = NoParse
  /\ written = NotWritten
  /\ rewritten = NotWritten
  /\ NewParser
  /\ readOnlyConst = TRUE
  /\ NewDicomBufferToView
  /\ image \in {NewImage(c, 1, <<0>>, p, m) :
                  c \in 1..2, p \in Photometrics, m \in {MetaCT, MetaCTBits}}
  /\ appended = NotAppended
  /\ created = NotCreated

NextImage ==
  \/ AppendSlice
  \/ SetRescaleSlopeAndIntercept

SpecImage == InitImage /\ [][NextImage]_vars

\* The appendSlice call of a step is given a slice that does not match the
\* image.
SliceMismatch ==
  \/ appended'.rhs.null
  \/ appended'.rhs.numberOfSlices # 1
  \/ appended'.rhs.columns # image.columns
  \/ appended'.rhs.rows # image.rows
  \/ appended'.rhs.photometricInterpretation # image.photometricInterpretation
  \/ appended'.rhs.meta # image.meta
IsAppend == appended'.count = appended.count + 1

\* A failed appendSlice leaves the frame buffer, the origins, the size, the
\* rsis and the overlays of the image as they were.
C20_FailureKeepsImage ==
  [][(IsAppend /\ appended'.err # "") => image' = image]_vars

\* C20: appendSlice(b) fails when b is null, has more than one slice, differs
\* in rows, columns or photometric interpretation, or has a meta map that is
\* not identical to that of the image (keys only b has included), and the
\* failure leaves the image as it was.
C20_SliceMismatch ==
  [][(IsAppend /\ SliceMismatch) => (appended'.err # "" /\ image' = image)]_vars

SlicesBefore(buf, n, sliceSize) == SubSeq(buf, 1, n * sliceSize)
SlicesFrom(buf, n, sliceSize) == SubSeq(buf, n * sliceSize + 1, Len(buf))
\* A step is an appendSlice call that returned.
IsAppended == appended'.count = appended.count + 1 /\ appended'.err = ""

\* C22: a successful appendSlice at index n leaves a buffer of slices + 1
\* slices: the first n slices of the old buffer, the samples of the new
\* slice, the other slices of the old buffer; the origin and the rsi of the
\* new slice are inserted at n too.
C22_SpliceAtIndex ==
  [][IsAppended =>
       LET n == appended'.newSliceNb
           sliceSize == Components(image.photometricInterpretation)
                          * image.columns * image.rows
       IN  /\ image'.buffer = SlicesBefore(image.buffer, n, sliceSize)
                                \o appended'.rhs.buffer
                                \o SlicesFrom(image.buffer, n, sliceSize)
           /\ image'.origins = SpliceIn(image.origins, n, appended'.rhs.origins[1])
           /\ image'.rsis = SpliceIn(image.rsis, n, appended'.rhs.rsis[1])]_vars

\* The same for an append before the first slice or after the last one.
C22_SpliceAtEnds ==
  [][(IsAppended /\ appended'.newSliceNb \in {0, image.numberOfSlices}) =>
       LET n == appended'.newSliceNb
           sliceSize == Components(image.photometricInterpretation)
                          * image.columns * image.rows
       IN  /\ image'.buffer = SlicesBefore(image.buffer, n, sliceSize)
                                \o appended'.rhs.buffer
                                \o SlicesFrom(image.buffer, n, sliceSize)
           /\ image'.origins = SpliceIn(image.origins, n, appended'.rhs.origins[1])
           /\ image'.rsis = SpliceIn(image.rsis, n, appended'.rhs.rsis[1])]_vars

\* RescaleSlopeAndIntercept.apply
apply(rsi, value) == value * rsi.slope + rsi.intercept
\* Image.getValue(i, j, k) of frame 0: the value at indexToOffset(i, j, k).
getValue(img, i, j, k) ==
  img.buffer[i + j * img.columns + k * (img.columns * img.rows) + 1]
\* Image.getRescaledValue(i, j, k)
getRescaledValue(img, i, j, k) ==
  IF ~img.isIdentityRSI THEN apply(img.rsis[k + 1], getValue(img, i, j, k))
  ELSE getValue(img, i, j, k)

\* C29: after any setRescaleSlopeAndIntercept and appendSlice calls
\* isIdentityRSI() is true exactly when every rsi is (1, 0), and
\* getRescaledValue(i, j, k) is the rsi of slice k applied to
\* getValue(i, j, k).
C29_IdentityRSI ==
  /\ image.isIdentityRSI = (\A s \in 1..Len(image.rsis) : isID(image.rsis[s]))
  /\ \A i \in 0..(image.columns - 1), j \in 0..(image.rows - 1),
       k \in 0..(image.numberOfSlices - 1) :
       getRescaledValue(image, i, j, k) =
         apply(image.rsis[k + 1], getValue(image, i, j, k))

\* The same while no slice was appended.
C29_SetOnly == appended.count = 0 => C29_IdentityRSI

getFromKey(element) ==
  IF ~element.present THEN [kind |-> "null", s |-> <<>>, cells |-> <<>>]
  ELSE IF Len(element.value) = 1
    THEN [kind |-> "string", s |-> element.value[1], cells |-> <<>>]
    ELSE [kind |-> "array", s |-> <<>>, cells |-> element.value]
\* v[i] of what getFromKey gave, as a string: a char of a string, a string
\* of an array; the empty string stands for undefined, falsy as well.
At(v, i) ==
  IF v.kind = "string" THEN (IF i < Len(v.s) THEN <<v.s[i + 1]>> ELSE <<>>)
  ELSE IF i < Len(v.cells) THEN v.cells[i + 1] ELSE <<>>
\* v && v[0] && v[1]
HasTwo(v) == v.kind # "null" /\ At(v, 0) # <<>> /\ At(v, 1) # <<>>
\* parseFloat of a string of digits, white space before it skipped; NaN is -1.
parseFloat(s) == Number(DigitsPrefix(TrimLeft(s), -1))

\* The spacing part of create: new Spacing(columnSpacing, rowSpacing).
Spacing(columnSpacing, rowSpacing) ==
  [columnSpacing |-> columnSpacing, rowSpacing |-> rowSpacing]
createSpacing(pixelSpacing, imagerPixelSpacing) ==
  IF HasTwo(pixelSpacing)
    THEN Spacing(parseFloat(At(pixelSpacing, 1)), parseFloat(At(pixelSpacing, 0)))
  ELSE IF HasTwo(imagerPixelSpacing)
    THEN Spacing(parseFloat(At(imagerPixelSpacing, 1)),
                 parseFloat(At(imagerPixelSpacing, 0)))
  ELSE Spacing(JsNull, JsNull)

\* A create call of the application, for elements with the spacing
\* elements x00280030 and x00181164 chosen.
Create ==
  /\ created.count < MaxCreates
  /\ \E x00280030 \in SpacingElements, x00181164 \in SpacingElements :
       \E spacing \in {createSpacing(getFromKey(x00280030), getFromKey(x00181164))} :
         created' = [count |-> created.count + 1,
                     pixelSpacing |-> x00280030, imagerPixelSpacing |-> x00181164,
                     columnSpacing |-> spacing.columnSpacing,
                     rowSpacing |-> spacing.rowSpacing]
  /\ UNCHANGED <<pipelineVars, parseVars, imageVars>>

InitFactory ==
  /\ input = Input(UidImplicitLE, "empty", FALSE, "none")
  /\ original = InputBuffer(input)
  /\ buffer = original
  /\ native = TRUE
  /\ run = "first"
  /\ first = NoParse
  /\ written = NotWritten
  /\ rewritten = NotWritten
  /\ NewParser
  /\ readOnlyConst = TRUE
  /\ NewDicomBufferToView
  /\ FirstImage
  /\ created = NotCreated

NextFactory == Create

SpecFactory == InitFactory /\ [][NextFactory]_vars

\* The spacing the elements ask for: the two values of PixelSpacing, else
\* those of ImagerPixelSpacing, else (1, 1); the first value is the row
\* spacing.
SpacingOf(value) ==
  Spacing(Number(ToNumber(value[2])), Number(ToNumber(value[1])))
ExpectedSpacing ==
  IF created.pixelSpacing.present THEN SpacingOf(created.pixelSpacing.value)
  ELSE IF created.imagerPixelSpacing.present
    THEN SpacingOf(created.imagerPixelSpacing.value)
  ELSE Spacing(Number(1), Number(1))
\* The spacing elements that are there have two decimal values or more.
WellFormedSpacing ==
  \A e \in {created.pixelSpacing, created.imagerPixelSpacing} :
    e.present => /\ Len(e.value) >= 2
                 /\ ToNumber(e.value[1]) > 0 /\ e.value[1] # <<>>
                 /\ ToNumber(e.value[2]) > 0 /\ e.value[2] # <<>>

\* C24: create takes the spacing from PixelSpacing (row spacing first),
\* else from ImagerPixelSpacing, else (1, 1): the column and row spacing of
\* the geometry are always numbers.
C24_Spacing ==
  (created.count > 0 /\ WellFormedSpacing)
    => /\ created.columnSpacing.type = "number"
       /\ created.rowSpacing.type = "number"
       /\ Spacing(created.columnSpacing, created.rowSpacing) = ExpectedSpacing

\* The same when one of the two elements is there.
C24_SpacingPresent ==
  (created.pixelSpacing.present \/ created.imagerPixelSpacing.present)
    => C24_Spacing


\* ---- The free list and the running list of the pool ----

\* The threads of a list of the pool.
ThreadsOf(list) == {list[i] : i \in 1..Len(list)}
\* No thread is twice in a list of the pool.
NoDuplicate(list) == \A i, j \in 1..Len(list) : list[i] = list[j] => i = j
\* Every thread the pool created is in exactly one of its two lists, and
\* the two lists hold poolSize threads together.
ThreadPartition ==
  /\ NoDuplicate(pool.freeThreads)
  /\ NoDuplicate(pool.runningThreads)
  /\ \A t \in 1..Len(threads) :
       (t \in ThreadsOf(pool.freeThreads)) # (t \in ThreadsOf(pool.runningThreads))
  /\ Len(pool.freeThreads) + Len(pool.runningThreads) = PoolSize

\* C28: once the pool is initialised, between any two pool operations every
\* worker thread is in exactly one of the free list and the running list and
\* the free and the running threads are poolSize together, whatever tasks
\* were added, completed or aborted.
C28_ThreadPartition == pixelDecoder.made => ThreadPartition

\* The same while no abort was called and the assignment of the running
\* task took effect in every run.
C28_PartitionWithoutAbort ==
  (pixelDecoder.made /\ aborts = 0 /\ ~readOnlyConst) => ThreadPartition
\* No more than poolSize workers run at once.
C28_AtMostPoolSize == Cardinality(RunningWorkers) <= PoolSize


\* ---- onpoolworkend ----

\* The onpoolworkend calls of a pool so far.
PoolWorkEnds(p) == Cardinality({i \in 1..Len(p.calls) : p.calls[i].op = "poolworkend"})
\* A step calls onpoolworkend.
FiresPoolWorkEnd == PoolWorkEnds(pool') > PoolWorkEnds(pool)
\* A step is the end of a task: the message of a running worker.
IsCompletion ==
  /\ aborts' = aborts
  /\ Len(conversions') = Len(conversions)
  /\ <<pool, threads>>' # <<pool, threads>>
\* A step leaves the pool with no worker running and no task waiting.
IdleAfter ==
  /\ pool'.taskQueue = <<>>
  /\ \A t \in 1..Len(threads') : threads'[t].worker # "running"

\* onpoolworkend is called at most once in a step, by the end of a task,
\* and never while a task is still running or waiting.
OnlyWhenIdle ==
  FiresPoolWorkEnd => /\ PoolWorkEnds(pool') = PoolWorkEnds(pool) + 1
                      /\ IsCompletion
                      /\ IdleAfter
\* The end of a task that leaves the pool idle calls onpoolworkend.
FiresWhenIdle == (IsCompletion /\ IdleAfter) => FiresPoolWorkEnd

C26_OnlyWhenIdle == [][OnlyWhenIdle]_vars
C26_FiresWhenIdle == [][FiresWhenIdle]_vars
\* The same as long as abort was never called.
C26_WithoutAbort == [][(aborts' = 0) => (OnlyWhenIdle /\ FiresWhenIdle)]_vars
\* onpoolworkend is never called while a worker runs or a task waits.
C26_NeverWhileBusy == [][FiresPoolWorkEnd => IdleAfter]_vars


\* ---- The tasks of the pool ----

\* The tasks of the calls op of the pool, in the order of the calls.
RECURSIVE TasksOf(_, _)
TasksOf(calls, op) ==
  IF calls = <<>> THEN <<>>
  ELSE IF Head(calls).op = op
    THEN <<[conv |-> Head(calls).conv, frame |-> Head(calls).frame]>>
           \o TasksOf(Tail(calls), op)
    ELSE TasksOf(Tail(calls), op)
\* The tasks passed to addWorkerTask and the tasks threads were made to run.
AddedTasks == TasksOf(pool.calls, "add")
RunTasks == TasksOf(pool.calls, "run")
\* The task of frame f of conversion c was passed to addWorkerTask.
Added(c, f) == \E i \in 1..Len(AddedTasks) : AddedTasks[i] = [conv |-> c, frame |-> f]
\* The callback of the task of frame f of conversion c was called once.
CalledOnce(c, f) == Cardinality(DecodedAt(c, f)) = 1

\* The tasks run so far are the first tasks added, in the order they were
\* added and each once; the others wait in the queue in that order, and
\* none waits while a thread is free; no callback was called twice, and
\* none of a task that was not run.
TasksInOrder ==
  /\ Len(RunTasks) <= Len(AddedTasks)
  /\ RunTasks = SubSeq(AddedTasks, 1, Len(RunTasks))
  /\ [i \in 1..Len(pool.taskQueue) |->
        [conv |-> pool.taskQueue[i].conv, frame |-> pool.taskQueue[i].frame]]
       = SubSeq(AddedTasks, Len(RunTasks) + 1, Len(AddedTasks))
  /\ pool.freeThreads # <<>> => pool.taskQueue = <<>>
  /\ \A c \in 1..Len(conversions) : \A f \in 1..(MaxFrames - 1) :
       /\ Cardinality(DecodedAt(c, f)) <= 1
       /\ DecodedAt(c, f) # {} =>
            \E i \in 1..Len(RunTasks) : RunTasks[i] = [conv |-> c, frame |-> f]

\* Every task added ends up with its callback called once, unless abort
\* is called.
TasksEnd ==
  \A c \in 1..MaxConversions : \A f \in 1..(MaxFrames - 1) :
    Added(c, f) ~> (CalledOnce(c, f) \/ aborts > 0)

\* C27: absent abort, when every started worker ends up posting its result,
\* every task passed to addWorkerTask is eventually run exactly once, at
\* once on a free thread when there is one and else when a thread is made
\* available, the queued tasks in the order they were added, and its
\* callback is called exactly once.
C27_TasksRun == [](aborts = 0 => TasksInOrder) /\ TasksEnd

\* The same where the assignment of the running task takes effect.
TasksEndWhereRunWorks ==
  \A c \in 1..MaxConversions : \A f \in 1..(MaxFrames - 1) :
    (Added(c, f) /\ ~readOnlyConst) ~> (CalledOnce(c, f) \/ aborts > 0)
C27_WhereRunWorks ==
  []((aborts = 0 /\ ~readOnlyConst) => TasksInOrder) /\ TasksEndWhereRunWorks
\* A task passed to addWorkerTask is never lost: it waits, was run, or
\* abort was called.
C27_TasksKept ==
  (aborts = 0) => Len(AddedTasks) = Len(RunTasks) + Len(pool.taskQueue)


\* ---- Undefined length ----

\* An element is a sequence, the pixel data, or was read as a sequence of
\* items closed by a delimiter.
DelimiterTerminated(e) ==
  \/ e.vr = VR_SQ
  \/ e.tag.name = x7FE00010
  \/ /\ e.value.t = "Array"
     /\ \A k \in 1..Len(e.value.cells) : e.value.cells[k].k = "object"
     /\ e.endOffset > e.startOffset

\* C23: an element that is neither a sequence nor the pixel data and has
\* the length 0xFFFFFFFF is read as a delimiter-terminated sequence or makes
\* the parse fail; it is never kept as an element of no value with the
\* bytes after it read as the next elements.
C23_UndefinedLength ==
  \A i \in 1..Len(dicomElements) :
    dicomElements[i].vl = UL => DelimiterTerminated(dicomElements[i])


\* ---- The offsets of an element ----

\* Every element of a map, and of the items of its sequences, that has an
\* explicit length spans as many bytes as its vl.
RECURSIVE VlSpans(_)
\* A vl that stands for an undefined length: 'u/l' of the parser, and the
\* 0xffffffff the writer puts in its place on the item it writes.
UndefinedVl(vl) == vl \in {UL, xFFFFFFFF}
VlSpansElement(e) ==
  /\ ~UndefinedVl(e.vl) => e.endOffset - e.startOffset = e.vl
  /\ e.value.t = "Array" =>
       \A k \in 1..Len(e.value.cells) :
         e.value.cells[k].k = "object" => VlSpans(e.value.cells[k].m)
VlSpans(map) == \A i \in 1..Len(map) : VlSpansElement(map[i])

\* C25: for every element readDataElement returned with an explicit length,
\* endOffset - startOffset is its vl, for the primitive, string, AT, UN,
\* explicit-length SQ and item elements alike, and the elements the Clear
\* and Replace rules changed keep the relation.
C25_VlSpans == VlSpans(dicomElements)

\* The same for the files whose elements all lie within the buffer.
C25_WithinBuffer == (input.body \notin {"short", "nested"}) => VlSpans(dicomElements)

\* A getBuffer that cleared the patient name of a map which also holds an
\* AT element: the cleared element has vl 0 and the AT element its four bytes.
C25_Witness ==
  /\ run = "written" /\ written.rules = "clear" /\ input.body = "values"
  /\ Get(dicomElements, x00100010).vl = 0
  /\ Get(first.elements, x00100010).vl = 4
  /\ Get(dicomElements, x00280009).vl = 4
\* A parse that read a sequence of explicit length and its item, a parse
\* that read a UN element, and a getBuffer that replaced a value.
C25_SequenceRead ==
  /\ input.body = "sequence" /\ run = "first" /\ pc = "done" /\ error = ""
  /\ Get(dicomElements, x00081140).vl > 0
  /\ Get(dicomElements, x00081140).value.cells[1].m[1].vl > 0
C25_Replaced ==
  /\ run = "written" /\ written.rules = "anonymisation" /\ input.body = "patient"
  /\ Get(dicomElements, x00100010).vl = Len(Anonymized)
C25_UnknownRead ==
  /\ input.body = "private" /\ run = "first" /\ pc = "done" /\ error = ""
  /\ \E i \in 1..Len(dicomElements) : dicomElements[i].vr = VR_UN /\ dicomElements[i].vl = 2


\* ---- The end of parse ----

\* parse is at work; parse returned or threw.
Parsing == pc \notin {"done", "failed"}
Ended == pc \in {"done", "failed"}
\* A turn of parse: while parse is at work a step moves it to another place
\* of its code or moves its offset.  Every step taken while parse is at work
\* is such a turn (TurnsOnly), and there is one to take (TurnReady).
ParseTurn ==
  /\ Parsing
  /\ pc' \in {"magic", "length", "meta", "data", "done", "failed"}
  /\ offset' \in 0..(2 * Len(buffer))
  /\ <<pc, offset>>' # <<pc, offset>>
TurnsOnly == (Parsing /\ vars' # vars) => ParseTurn
TurnReady == Parsing => pc \in {"magic", "length", "meta", "data"}
\* parse is synchronous: once called it is given its turns until it
\* returns or throws.
SpecFair == Spec /\ WF_<<pc, offset>>(ParseTurn)
\* A step is a readDataElement call of parse that returned an element.
IsRead == header' # header /\ pc' # "failed" /\ run' = run
\* The call ends after the offset it started at, beyond the header it read.
ReadAdvances ==
  IsRead => /\ header'.offset = offset
            /\ header'.startOffset > offset
            /\ offset' >= header'.startOffset
\* The elements of a map and of the items of its sequences end no earlier
\* than their value starts.
RECURSIVE EndsAfterStart(_)
EndsAfterStartElement(e) ==
  /\ e.endOffset >= e.startOffset
  /\ e.value.t = "Array" =>
       \A k \in 1..Len(e.value.cells) :
         e.value.cells[k].k = "object" => EndsAfterStart(e.value.cells[k].m)
EndsAfterStart(map) == \A i \in 1..Len(map) : EndsAfterStartElement(map[i])
\* A parse that returned left the Data Set loop at the end of the buffer.
EndsAtBufferEnd == (pc = "done" /\ error = "") => offset = Len(buffer)

\* C30: parse ends on every input, with the elements or with an error:
\* every readDataElement call ends at an offset greater than the one it
\* started at, the loops of parse make progress, and the Data Set loop is
\* left with the offset at the length of the buffer, on truncated and
\* malformed input too.
C30_ParseEnds ==
  /\ [][ReadAdvances /\ TurnsOnly]_vars
  /\ [](EndsAfterStart(dicomElements) /\ TurnReady /\ EndsAtBufferEnd)
  /\ Parsing ~> Ended

\* The parts of it: the progress of the reads and the end of parse, and
\* the offset parse ends at.
C30_Progress ==
  [][ReadAdvances /\ TurnsOnly]_vars /\ [](EndsAfterStart(dicomElements) /\ TurnReady)
C30_Terminates == Parsing ~> Ended
C30_EndsAtBufferEnd == EndsAtBufferEnd
\* A parse that returned never stopped short of the end of the buffer.
C30_EndsAtOrPastEnd == (pc = "done" /\ error = "") => offset >= Len(buffer)

=============================================================================
